---- MODULE Spec2Model ----

(***************************************************************************)
(* A model of the structured-value core of the `log` crate (src/src/kv):   *)
(* Primitive, Inner, Value, the Visitor contract, Fill / Slot, and the     *)
(* permissive cast layer and the strict coerce layer.                      *)
(*                                                                         *)
(* Machine integers are bit vectors, most significant bit first, so that   *)
(* the 64-bit payloads of Primitive keep their width: a u64 is a sequence  *)
(* of 64 bits, an `as` cast truncates, zero-extends or sign-extends it.    *)
(* Floats are IEEE-754 records [sign, exp, man] with the biased exponent   *)
(* as a number and the mantissa field as a bit vector.                     *)
(***************************************************************************)
EXTENDS Integers, Sequences, FiniteSets, TLC

(***************************************************************************)
(* A second specification, LoggerSpec, models the global logger of         *)
(* src/src/lib.rs: the statics LOGGER, STATE, REFCOUNT and                 *)
(* MAX_LOG_LEVEL_FILTER, and threads calling set_logger_raw,               *)
(* try_set_logger, set_logger, shutdown_logger_raw, __log and __enabled,   *)
(* one atomic operation or one access of LOGGER at a time.                 *)
(***************************************************************************)

\* input:   the constructor call the Value was made with
\* value:   the Value (its Inner)
\* stack:   the activations of Fill::fill inside the visit in progress, the
\*          innermost last, each with the Slot it was handed
\* visitor: the visitor of the operation in progress or just ended
\* calls:   the Visitor methods that visitor has been called with, in order
\* op:      the operation of Value in progress or just ended
\* result:  what that operation gave back
\* first:   the calls the first visit of the Value delivered, once it ended
\* nops:    how many operations have been started on the Value
VARIABLES input, value, stack, visitor, calls, op, result, first, nops

\* LOGGER:  the static pointer to the global logger (0 is &NopLogger, t the
\*          logger made by thread t's make_logger)
\* State, REFCOUNT, MAX_LOG_LEVEL_FILTER: the atomics STATE (a reserved word
\*          here), REFCOUNT and MAX_LOG_LEVEL_FILTER
\* thread:  each thread's position in the call it is making, and the call's
\*          locals
\* hist:    what has happened so far: calls started, make_logger runs, set
\*          calls that returned Ok, and the logger shutdown_logger_raw
\*          returned, once it has
VARIABLES LOGGER, State, REFCOUNT, MAX_LOG_LEVEL_FILTER, thread, hist

\* the state of a Value and of the operation on it
kvars == <<input, value, stack, visitor, calls, op, result, first, nops>>

\* the statics of the logger and the threads using them
lvars == <<LOGGER, State, REFCOUNT, MAX_LOG_LEVEL_FILTER, thread, hist>>

vars == <<input, value, stack, visitor, calls, op, result, first, nops,
          LOGGER, State, REFCOUNT, MAX_LOG_LEVEL_FILTER, thread, hist>>

(***************************************************************************)
(* Bit vectors                                                             *)
(***************************************************************************)

Zeros(n) == [i \in 1..n |-> 0]

Ones(n) == [i \in 1..n |-> 1]

\* the w-bit pattern of a natural n < 2^30
BitsOf(n, w) == [i \in 1..w |-> IF w - i > 29 THEN 0 ELSE (n \div (2 ^ (w - i))) % 2]

IsZero(b) == \A i \in 1..Len(b) : b[i] = 0

\* position of the most significant set bit of a non-zero vector
FirstOne(b) == CHOOSE i \in 1..Len(b) : b[i] = 1 /\ \A j \in 1..(i - 1) : b[j] = 0

\* position of the least significant set bit of a non-zero vector
LastOne(b) == CHOOSE i \in 1..Len(b) : b[i] = 1 /\ \A j \in (i + 1)..Len(b) : b[j] = 0

\* two's complement negation, wrapping: flip every bit above the lowest set bit
WrappingNeg(b) ==
    IF IsZero(b) THEN b
    ELSE [i \in 1..Len(b) |-> IF i < LastOne(b) THEN 1 - b[i] ELSE b[i]]

\* b + 1 on Len(b) bits, wrapping to zero on overflow
Inc(b) ==
    IF \A i \in 1..Len(b) : b[i] = 1 THEN Zeros(Len(b))
    ELSE LET z == CHOOSE i \in 1..Len(b) : b[i] = 0 /\ \A j \in (i + 1)..Len(b) : b[j] = 1
         IN  [i \in 1..Len(b) |-> IF i < z THEN b[i] ELSE IF i = z THEN 1 ELSE 0]

\* the w-bit two's complement pattern of a small integer
IntBits(n, w) == IF n >= 0 THEN BitsOf(n, w) ELSE WrappingNeg(BitsOf(0 - n, w))

\* the low w bits of b (an `as` cast to a narrower integer type)
Truncate(b, w) == SubSeq(b, Len(b) - w + 1, Len(b))

\* an `as` cast of an unsigned integer to a wider integer type
ZeroExtend(b, w) == Zeros(w - Len(b)) \o b

\* an `as` cast of a signed integer to a wider integer type
SignExtend(b, w) == [i \in 1..(w - Len(b)) |-> b[1]] \o b

\* round a bit vector to its first `keep` bits, to nearest, ties to even
RoundNearestEven(b, keep) ==
    LET kept == SubSeq(b, 1, keep)
        half == IF keep + 1 <= Len(b) THEN b[keep + 1] ELSE 0
        sticky == \E i \in (keep + 2)..Len(b) : b[i] = 1
        odd == keep >= 1 /\ kept[keep] = 1
        up == half = 1 /\ (sticky \/ odd)
    IN  [bits |-> IF up THEN Inc(kept) ELSE kept,
         carry |-> up /\ \A i \in 1..keep : kept[i] = 1]

(***************************************************************************)
(* IEEE-754 floats and the `as` casts between the native numeric types     *)
(***************************************************************************)

\* a bit vector from hexadecimal digits
Hex(digits) == [i \in 1..(4 * Len(digits)) |-> (digits[((i - 1) \div 4) + 1] \div (2 ^ (3 - ((i - 1) % 4)))) % 2]

MkF64(sign, exp, man) == [sign |-> sign, exp |-> exp, man |-> man]

MkF32(sign, exp, man) == [sign |-> sign, exp |-> exp, man |-> man]

F64IsNaN(x) == x.exp = 2047 /\ ~IsZero(x.man)

\* the integer part of the magnitude of a finite f64 with |x| >= 1, as a bit vector of E + 1 bits
F64IntegerPart(x) ==
    LET E == x.exp - 1023
        sig == <<1>> \o x.man
    IN  IF E <= 52 THEN SubSeq(sig, 1, E + 1) ELSE sig \o Zeros(E - 52)

\* `value as i64` for an f64: toward zero, saturating, NaN to 0
f64_as_i64(x) ==
    IF F64IsNaN(x) THEN Zeros(64)
    ELSE IF x.exp < 1023 THEN Zeros(64)
    ELSE IF x.exp - 1023 >= 63 THEN (IF x.sign = 1 THEN <<1>> \o Zeros(63) ELSE <<0>> \o Ones(63))
    ELSE IF x.sign = 1 THEN WrappingNeg(ZeroExtend(F64IntegerPart(x), 64))
    ELSE ZeroExtend(F64IntegerPart(x), 64)

\* `value as u64` for an f64: toward zero, saturating, NaN and negatives to 0
f64_as_u64(x) ==
    IF F64IsNaN(x) THEN Zeros(64)
    ELSE IF x.sign = 1 THEN Zeros(64)
    ELSE IF x.exp < 1023 THEN Zeros(64)
    ELSE IF x.exp - 1023 >= 64 THEN Ones(64)
    ELSE ZeroExtend(F64IntegerPart(x), 64)

\* the f64 nearest to sign * mag, mag a 64-bit magnitude
MagnitudeToF64(sign, mag) ==
    IF IsZero(mag) THEN MkF64(sign, 0, Zeros(52))
    ELSE LET sig == SubSeq(mag, FirstOne(mag), 64)
             L == Len(sig)
             r == RoundNearestEven(sig, 53)
         IN  IF L <= 53 THEN MkF64(sign, 1023 + L - 1, Tail(sig) \o Zeros(53 - L))
             ELSE IF r.carry THEN MkF64(sign, 1023 + L, Zeros(52))
             ELSE MkF64(sign, 1023 + L - 1, Tail(r.bits))

\* `value as f64` for a u64
u64_as_f64(b) == MagnitudeToF64(0, b)

\* `value as f64` for an i64
i64_as_f64(b) == IF b[1] = 1 THEN MagnitudeToF64(1, WrappingNeg(b)) ELSE MagnitudeToF64(0, b)

\* `v as f64` for an f32: exact; a NaN keeps its payload and comes out quiet
f32_as_f64(x) ==
    IF x.exp = 255 THEN
        MkF64(x.sign, 2047, IF IsZero(x.man) THEN Zeros(52) ELSE <<1>> \o Tail(x.man) \o Zeros(29))
    ELSE IF x.exp = 0 /\ IsZero(x.man) THEN MkF64(x.sign, 0, Zeros(52))
    ELSE IF x.exp = 0 THEN
        LET k == FirstOne(x.man)
        IN  MkF64(x.sign, 1023 - 126 - k, SubSeq(x.man, k + 1, 23) \o Zeros(29 + k))
    ELSE MkF64(x.sign, x.exp - 127 + 1023, x.man \o Zeros(29))

\* `v as f32` for an f64: to nearest, ties to even, overflow to infinity
f64_as_f32(x) ==
    IF x.exp = 2047 THEN
        MkF32(x.sign, 255, IF IsZero(x.man) THEN Zeros(23) ELSE <<1>> \o SubSeq(x.man, 2, 23))
    ELSE IF x.exp = 0 THEN MkF32(x.sign, 0, Zeros(23))
    ELSE LET E == x.exp - 1023
             sig == <<1>> \o x.man
             shift == IF -126 - E > 25 THEN 25 ELSE -126 - E
             n == RoundNearestEven(sig, 24)
             d == RoundNearestEven(Zeros(shift) \o sig, 24)
             En == IF n.carry THEN E + 1 ELSE E
         IN  IF E >= -126 THEN
                 (IF En > 127 THEN MkF32(x.sign, 255, Zeros(23))
                  ELSE MkF32(x.sign, En + 127, IF n.carry THEN Zeros(23) ELSE Tail(n.bits)))
             ELSE MkF32(x.sign, d.bits[1], Tail(d.bits))

(***************************************************************************)
(* Native scalars, Option, strings and erased capabilities                 *)
(***************************************************************************)

\* Option<T>
None == <<>>

Some(x) == <<x>>

\* Option::map with an `as` cast as the closure
MapTruncate(o, w) == IF o = None THEN None ELSE Some(Truncate(o[1], w))

UnsignedTypes == {"u8", "u16", "u32", "u64", "usize"}

SignedTypes == {"i8", "i16", "i32", "i64", "isize"}

\* width in bits of a native integer type (usize and isize on a 64-bit target)
BitsOfType(ty) ==
    CASE ty \in {"u8", "i8"} -> 8
      [] ty \in {"u16", "i16"} -> 16
      [] ty \in {"u32", "i32"} -> 32
      [] ty \in {"u64", "i64", "usize", "isize"} -> 64

(***************************************************************************)
(* Text.  A str is the sequence of its chars, a char its code point; what  *)
(* the code measures in bytes is measured on the UTF-8 encoding.           *)
(***************************************************************************)

\* the printable ASCII characters from the space to the underscore and from
\* `a` to the tilde, for writing the sample texts
AsciiLow == " !\"#$%&'()*+,-./0123456789:;<=>?@ABCDEFGHIJKLMNOPQRSTUVWXYZ[\\]^_"

AsciiHigh == "abcdefghijklmnopqrstuvwxyz{|}~"

\* the code point of a character of the sample texts
ord(c) ==
    CASE c = "\t" -> 9
      [] c = "\n" -> 10
      [] c = "é" -> 233
      [] \E i \in 1..Len(AsciiLow) : SubSeq(AsciiLow, i, i) = c ->
             31 + CHOOSE i \in 1..Len(AsciiLow) : SubSeq(AsciiLow, i, i) = c
      [] \E i \in 1..Len(AsciiHigh) : SubSeq(AsciiHigh, i, i) = c ->
             96 + CHOOSE i \in 1..Len(AsciiHigh) : SubSeq(AsciiHigh, i, i) = c

\* a string literal of the program as a str
utf(s) == [i \in 1..Len(s) |-> ord(SubSeq(s, i, i))]

\* char::encode_utf8: the bytes of one char
encode_utf8(c) ==
    IF c < 128 THEN <<c>>
    ELSE IF c < 2048 THEN <<192 + (c \div 64), 128 + (c % 64)>>
    ELSE IF c < 65536 THEN <<224 + (c \div 4096), 128 + ((c \div 64) % 64), 128 + (c % 64)>>
    ELSE <<240 + (c \div 262144), 128 + ((c \div 4096) % 64), 128 + ((c \div 64) % 64), 128 + (c % 64)>>

\* str::as_bytes
RECURSIVE as_bytes(_)
as_bytes(s) == IF Len(s) = 0 THEN <<>> ELSE encode_utf8(s[1]) \o as_bytes(Tail(s))

\* char::is_whitespace: the code points with the White_Space property
is_whitespace(c) ==
    \/ c \in {9, 10, 11, 12, 13, 32, 133, 160, 5760, 8232, 8233, 8239, 8287, 12288}
    \/ (8192 <= c /\ c <= 8202)

\* core::unicode::printable: the ranges of the code points from U+007F on
\* that are not printable (general categories Cc, Cf, Cs, Co, Cn, Zl, Zp and
\* Zs), as the tables of the standard library are generated from Unicode
\* 17.0.0
NotPrintable ==
    { <<127, 160>>, <<173, 173>>, <<888, 889>>, <<896, 899>>, <<907, 907>>, <<909, 909>>,
      <<930, 930>>, <<1328, 1328>>, <<1367, 1368>>, <<1419, 1420>>, <<1424, 1424>>, <<1480, 1487>>,
      <<1515, 1518>>, <<1525, 1541>>, <<1564, 1564>>, <<1757, 1757>>, <<1806, 1807>>,
      <<1867, 1868>>, <<1970, 1983>>, <<2043, 2044>>, <<2094, 2095>>, <<2111, 2111>>,
      <<2140, 2141>>, <<2143, 2143>>, <<2155, 2159>>, <<2192, 2198>>, <<2274, 2274>>,
      <<2436, 2436>>, <<2445, 2446>>, <<2449, 2450>>, <<2473, 2473>>, <<2481, 2481>>,
      <<2483, 2485>>, <<2490, 2491>>, <<2501, 2502>>, <<2505, 2506>>, <<2511, 2518>>,
      <<2520, 2523>>, <<2526, 2526>>, <<2532, 2533>>, <<2559, 2560>>, <<2564, 2564>>,
      <<2571, 2574>>, <<2577, 2578>>, <<2601, 2601>>, <<2609, 2609>>, <<2612, 2612>>,
      <<2615, 2615>>, <<2618, 2619>>, <<2621, 2621>>, <<2627, 2630>>, <<2633, 2634>>,
      <<2638, 2640>>, <<2642, 2648>>, <<2653, 2653>>, <<2655, 2661>>, <<2679, 2688>>,
      <<2692, 2692>>, <<2702, 2702>>, <<2706, 2706>>, <<2729, 2729>>, <<2737, 2737>>,
      <<2740, 2740>>, <<2746, 2747>>, <<2758, 2758>>, <<2762, 2762>>, <<2766, 2767>>,
      <<2769, 2783>>, <<2788, 2789>>, <<2802, 2808>>, <<2816, 2816>>, <<2820, 2820>>,
      <<2829, 2830>>, <<2833, 2834>>, <<2857, 2857>>, <<2865, 2865>>, <<2868, 2868>>,
      <<2874, 2875>>, <<2885, 2886>>, <<2889, 2890>>, <<2894, 2900>>, <<2904, 2907>>,
      <<2910, 2910>>, <<2916, 2917>>, <<2936, 2945>>, <<2948, 2948>>, <<2955, 2957>>,
      <<2961, 2961>>, <<2966, 2968>>, <<2971, 2971>>, <<2973, 2973>>, <<2976, 2978>>,
      <<2981, 2983>>, <<2987, 2989>>, <<3002, 3005>>, <<3011, 3013>>, <<3017, 3017>>,
      <<3022, 3023>>, <<3025, 3030>>, <<3032, 3045>>, <<3067, 3071>>, <<3085, 3085>>,
      <<3089, 3089>>, <<3113, 3113>>, <<3130, 3131>>, <<3141, 3141>>, <<3145, 3145>>,
      <<3150, 3156>>, <<3159, 3159>>, <<3163, 3163>>, <<3166, 3167>>, <<3172, 3173>>,
      <<3184, 3190>>, <<3213, 3213>>, <<3217, 3217>>, <<3241, 3241>>, <<3252, 3252>>,
      <<3258, 3259>>, <<3269, 3269>>, <<3273, 3273>>, <<3278, 3284>>, <<3287, 3291>>,
      <<3295, 3295>>, <<3300, 3301>>, <<3312, 3312>>, <<3316, 3327>>, <<3341, 3341>>,
      <<3345, 3345>>, <<3397, 3397>>, <<3401, 3401>>, <<3408, 3411>>, <<3428, 3429>>,
      <<3456, 3456>>, <<3460, 3460>>, <<3479, 3481>>, <<3506, 3506>>, <<3516, 3516>>,
      <<3518, 3519>>, <<3527, 3529>>, <<3531, 3534>>, <<3541, 3541>>, <<3543, 3543>>,
      <<3552, 3557>>, <<3568, 3569>>, <<3573, 3584>>, <<3643, 3646>>, <<3676, 3712>>,
      <<3715, 3715>>, <<3717, 3717>>, <<3723, 3723>>, <<3748, 3748>>, <<3750, 3750>>,
      <<3774, 3775>>, <<3781, 3781>>, <<3783, 3783>>, <<3791, 3791>>, <<3802, 3803>>,
      <<3808, 3839>>, <<3912, 3912>>, <<3949, 3952>>, <<3992, 3992>>, <<4029, 4029>>,
      <<4045, 4045>>, <<4059, 4095>>, <<4294, 4294>>, <<4296, 4300>>, <<4302, 4303>>,
      <<4681, 4681>>, <<4686, 4687>>, <<4695, 4695>>, <<4697, 4697>>, <<4702, 4703>>,
      <<4745, 4745>>, <<4750, 4751>>, <<4785, 4785>>, <<4790, 4791>>, <<4799, 4799>>,
      <<4801, 4801>>, <<4806, 4807>>, <<4823, 4823>>, <<4881, 4881>>, <<4886, 4887>>,
      <<4955, 4956>>, <<4989, 4991>>, <<5018, 5023>>, <<5110, 5111>>, <<5118, 5119>>,
      <<5760, 5760>>, <<5789, 5791>>, <<5881, 5887>>, <<5910, 5918>>, <<5943, 5951>>,
      <<5972, 5983>>, <<5997, 5997>>, <<6001, 6001>>, <<6004, 6015>>, <<6110, 6111>>,
      <<6122, 6127>>, <<6138, 6143>>, <<6158, 6158>>, <<6170, 6175>>, <<6265, 6271>>,
      <<6315, 6319>>, <<6390, 6399>>, <<6431, 6431>>, <<6444, 6447>>, <<6460, 6463>>,
      <<6465, 6467>>, <<6510, 6511>>, <<6517, 6527>>, <<6572, 6575>>, <<6602, 6607>>,
      <<6619, 6621>>, <<6684, 6685>>, <<6751, 6751>>, <<6781, 6782>>, <<6794, 6799>>,
      <<6810, 6815>>, <<6830, 6831>>, <<6878, 6879>>, <<6892, 6911>>, <<6989, 6989>>,
      <<7156, 7163>>, <<7224, 7226>>, <<7242, 7244>>, <<7307, 7311>>, <<7355, 7356>>,
      <<7368, 7375>>, <<7419, 7423>>, <<7958, 7959>>, <<7966, 7967>>, <<8006, 8007>>,
      <<8014, 8015>>, <<8024, 8024>>, <<8026, 8026>>, <<8028, 8028>>, <<8030, 8030>>,
      <<8062, 8063>>, <<8117, 8117>>, <<8133, 8133>>, <<8148, 8149>>, <<8156, 8156>>,
      <<8176, 8177>>, <<8181, 8181>>, <<8191, 8207>>, <<8232, 8239>>, <<8287, 8303>>,
      <<8306, 8307>>, <<8335, 8335>>, <<8349, 8351>>, <<8386, 8399>>, <<8433, 8447>>,
      <<8588, 8591>>, <<9258, 9279>>, <<9291, 9311>>, <<11124, 11125>>, <<11508, 11512>>,
      <<11558, 11558>>, <<11560, 11564>>, <<11566, 11567>>, <<11624, 11630>>, <<11633, 11646>>,
      <<11671, 11679>>, <<11687, 11687>>, <<11695, 11695>>, <<11703, 11703>>, <<11711, 11711>>,
      <<11719, 11719>>, <<11727, 11727>>, <<11735, 11735>>, <<11743, 11743>>, <<11870, 11903>>,
      <<11930, 11930>>, <<12020, 12031>>, <<12246, 12271>>, <<12288, 12288>>, <<12352, 12352>>,
      <<12439, 12440>>, <<12544, 12548>>, <<12592, 12592>>, <<12687, 12687>>, <<12774, 12782>>,
      <<12831, 12831>>, <<42125, 42127>>, <<42183, 42191>>, <<42540, 42559>>, <<42744, 42751>>,
      <<42973, 42992>>, <<43053, 43055>>, <<43066, 43071>>, <<43128, 43135>>, <<43206, 43213>>,
      <<43226, 43231>>, <<43348, 43358>>, <<43389, 43391>>, <<43470, 43470>>, <<43482, 43485>>,
      <<43519, 43519>>, <<43575, 43583>>, <<43598, 43599>>, <<43610, 43611>>, <<43715, 43738>>,
      <<43767, 43776>>, <<43783, 43784>>, <<43791, 43792>>, <<43799, 43807>>, <<43815, 43815>>,
      <<43823, 43823>>, <<43884, 43887>>, <<44014, 44015>>, <<44026, 44031>>, <<55204, 55215>>,
      <<55239, 55242>>, <<55292, 63743>>, <<64110, 64111>>, <<64218, 64255>>, <<64263, 64274>>,
      <<64280, 64284>>, <<64311, 64311>>, <<64317, 64317>>, <<64319, 64319>>, <<64322, 64322>>,
      <<64325, 64325>>, <<64976, 65007>>, <<65050, 65055>>, <<65107, 65107>>, <<65127, 65127>>,
      <<65132, 65135>>, <<65141, 65141>>, <<65277, 65280>>, <<65471, 65473>>, <<65480, 65481>>,
      <<65488, 65489>>, <<65496, 65497>>, <<65501, 65503>>, <<65511, 65511>>, <<65519, 65531>>,
      <<65534, 65535>>, <<65548, 65548>>, <<65575, 65575>>, <<65595, 65595>>, <<65598, 65598>>,
      <<65614, 65615>>, <<65630, 65663>>, <<65787, 65791>>, <<65795, 65798>>, <<65844, 65846>>,
      <<65935, 65935>>, <<65949, 65951>>, <<65953, 65999>>, <<66046, 66175>>, <<66205, 66207>>,
      <<66257, 66271>>, <<66300, 66303>>, <<66340, 66348>>, <<66379, 66383>>, <<66427, 66431>>,
      <<66462, 66462>>, <<66500, 66503>>, <<66518, 66559>>, <<66718, 66719>>, <<66730, 66735>>,
      <<66772, 66775>>, <<66812, 66815>>, <<66856, 66863>>, <<66916, 66926>>, <<66939, 66939>>,
      <<66955, 66955>>, <<66963, 66963>>, <<66966, 66966>>, <<66978, 66978>>, <<66994, 66994>>,
      <<67002, 67002>>, <<67005, 67007>>, <<67060, 67071>>, <<67383, 67391>>, <<67414, 67423>>,
      <<67432, 67455>>, <<67462, 67462>>, <<67505, 67505>>, <<67515, 67583>>, <<67590, 67591>>,
      <<67593, 67593>>, <<67638, 67638>>, <<67641, 67643>>, <<67645, 67646>>, <<67670, 67670>>,
      <<67743, 67750>>, <<67760, 67807>>, <<67827, 67827>>, <<67830, 67834>>, <<67868, 67870>>,
      <<67898, 67902>>, <<67930, 67967>>, <<68024, 68027>>, <<68048, 68049>>, <<68100, 68100>>,
      <<68103, 68107>>, <<68116, 68116>>, <<68120, 68120>>, <<68150, 68151>>, <<68155, 68158>>,
      <<68169, 68175>>, <<68185, 68191>>, <<68256, 68287>>, <<68327, 68330>>, <<68343, 68351>>,
      <<68406, 68408>>, <<68438, 68439>>, <<68467, 68471>>, <<68498, 68504>>, <<68509, 68520>>,
      <<68528, 68607>>, <<68681, 68735>>, <<68787, 68799>>, <<68851, 68857>>, <<68904, 68911>>,
      <<68922, 68927>>, <<68966, 68968>>, <<68998, 69005>>, <<69008, 69215>>, <<69247, 69247>>,
      <<69290, 69290>>, <<69294, 69295>>, <<69298, 69313>>, <<69320, 69327>>, <<69337, 69369>>,
      <<69416, 69423>>, <<69466, 69487>>, <<69514, 69551>>, <<69580, 69599>>, <<69623, 69631>>,
      <<69710, 69713>>, <<69750, 69758>>, <<69821, 69821>>, <<69827, 69839>>, <<69865, 69871>>,
      <<69882, 69887>>, <<69941, 69941>>, <<69960, 69967>>, <<70007, 70015>>, <<70112, 70112>>,
      <<70133, 70143>>, <<70162, 70162>>, <<70210, 70271>>, <<70279, 70279>>, <<70281, 70281>>,
      <<70286, 70286>>, <<70302, 70302>>, <<70314, 70319>>, <<70379, 70383>>, <<70394, 70399>>,
      <<70404, 70404>>, <<70413, 70414>>, <<70417, 70418>>, <<70441, 70441>>, <<70449, 70449>>,
      <<70452, 70452>>, <<70458, 70458>>, <<70469, 70470>>, <<70473, 70474>>, <<70478, 70479>>,
      <<70481, 70486>>, <<70488, 70492>>, <<70500, 70501>>, <<70509, 70511>>, <<70517, 70527>>,
      <<70538, 70538>>, <<70540, 70541>>, <<70543, 70543>>, <<70582, 70582>>, <<70593, 70593>>,
      <<70595, 70596>>, <<70598, 70598>>, <<70603, 70603>>, <<70614, 70614>>, <<70617, 70624>>,
      <<70627, 70655>>, <<70748, 70748>>, <<70754, 70783>>, <<70856, 70863>>, <<70874, 71039>>,
      <<71094, 71095>>, <<71134, 71167>>, <<71237, 71247>>, <<71258, 71263>>, <<71277, 71295>>,
      <<71354, 71359>>, <<71370, 71375>>, <<71396, 71423>>, <<71451, 71452>>, <<71468, 71471>>,
      <<71495, 71679>>, <<71740, 71839>>, <<71923, 71934>>, <<71943, 71944>>, <<71946, 71947>>,
      <<71956, 71956>>, <<71959, 71959>>, <<71990, 71990>>, <<71993, 71994>>, <<72007, 72015>>,
      <<72026, 72095>>, <<72104, 72105>>, <<72152, 72153>>, <<72165, 72191>>, <<72264, 72271>>,
      <<72355, 72367>>, <<72441, 72447>>, <<72458, 72543>>, <<72552, 72639>>, <<72674, 72687>>,
      <<72698, 72703>>, <<72713, 72713>>, <<72759, 72759>>, <<72774, 72783>>, <<72813, 72815>>,
      <<72848, 72849>>, <<72872, 72872>>, <<72887, 72959>>, <<72967, 72967>>, <<72970, 72970>>,
      <<73015, 73017>>, <<73019, 73019>>, <<73022, 73022>>, <<73032, 73039>>, <<73050, 73055>>,
      <<73062, 73062>>, <<73065, 73065>>, <<73103, 73103>>, <<73106, 73106>>, <<73113, 73119>>,
      <<73130, 73135>>, <<73180, 73183>>, <<73194, 73439>>, <<73465, 73471>>, <<73489, 73489>>,
      <<73531, 73533>>, <<73563, 73647>>, <<73649, 73663>>, <<73714, 73726>>, <<74650, 74751>>,
      <<74863, 74863>>, <<74869, 74879>>, <<75076, 77711>>, <<77811, 77823>>, <<78896, 78911>>,
      <<78934, 78943>>, <<82939, 82943>>, <<83527, 90367>>, <<90426, 92159>>, <<92729, 92735>>,
      <<92767, 92767>>, <<92778, 92781>>, <<92863, 92863>>, <<92874, 92879>>, <<92910, 92911>>,
      <<92918, 92927>>, <<92998, 93007>>, <<93018, 93018>>, <<93026, 93026>>, <<93048, 93052>>,
      <<93072, 93503>>, <<93562, 93759>>, <<93851, 93855>>, <<93881, 93882>>, <<93908, 93951>>,
      <<94027, 94030>>, <<94088, 94094>>, <<94112, 94175>>, <<94181, 94191>>, <<94199, 94207>>,
      <<101590, 101630>>, <<101663, 101759>>, <<101875, 110575>>, <<110580, 110580>>,
      <<110588, 110588>>, <<110591, 110591>>, <<110883, 110897>>, <<110899, 110927>>,
      <<110931, 110932>>, <<110934, 110947>>, <<110952, 110959>>, <<111356, 113663>>,
      <<113771, 113775>>, <<113789, 113791>>, <<113801, 113807>>, <<113818, 113819>>,
      <<113824, 117759>>, <<118013, 118015>>, <<118452, 118457>>, <<118481, 118495>>,
      <<118513, 118527>>, <<118574, 118575>>, <<118599, 118607>>, <<118724, 118783>>,
      <<119030, 119039>>, <<119079, 119080>>, <<119155, 119162>>, <<119275, 119295>>,
      <<119366, 119487>>, <<119508, 119519>>, <<119540, 119551>>, <<119639, 119647>>,
      <<119673, 119807>>, <<119893, 119893>>, <<119965, 119965>>, <<119968, 119969>>,
      <<119971, 119972>>, <<119975, 119976>>, <<119981, 119981>>, <<119994, 119994>>,
      <<119996, 119996>>, <<120004, 120004>>, <<120070, 120070>>, <<120075, 120076>>,
      <<120085, 120085>>, <<120093, 120093>>, <<120122, 120122>>, <<120127, 120127>>,
      <<120133, 120133>>, <<120135, 120137>>, <<120145, 120145>>, <<120486, 120487>>,
      <<120780, 120781>>, <<121484, 121498>>, <<121504, 121504>>, <<121520, 122623>>,
      <<122655, 122660>>, <<122667, 122879>>, <<122887, 122887>>, <<122905, 122906>>,
      <<122914, 122914>>, <<122917, 122917>>, <<122923, 122927>>, <<122990, 123022>>,
      <<123024, 123135>>, <<123181, 123183>>, <<123198, 123199>>, <<123210, 123213>>,
      <<123216, 123535>>, <<123567, 123583>>, <<123642, 123646>>, <<123648, 124111>>,
      <<124154, 124367>>, <<124411, 124414>>, <<124416, 124607>>, <<124639, 124639>>,
      <<124662, 124669>>, <<124672, 124895>>, <<124903, 124903>>, <<124908, 124908>>,
      <<124911, 124911>>, <<124927, 124927>>, <<125125, 125126>>, <<125143, 125183>>,
      <<125260, 125263>>, <<125274, 125277>>, <<125280, 126064>>, <<126133, 126208>>,
      <<126270, 126463>>, <<126468, 126468>>, <<126496, 126496>>, <<126499, 126499>>,
      <<126501, 126502>>, <<126504, 126504>>, <<126515, 126515>>, <<126520, 126520>>,
      <<126522, 126522>>, <<126524, 126529>>, <<126531, 126534>>, <<126536, 126536>>,
      <<126538, 126538>>, <<126540, 126540>>, <<126544, 126544>>, <<126547, 126547>>,
      <<126549, 126550>>, <<126552, 126552>>, <<126554, 126554>>, <<126556, 126556>>,
      <<126558, 126558>>, <<126560, 126560>>, <<126563, 126563>>, <<126565, 126566>>,
      <<126571, 126571>>, <<126579, 126579>>, <<126584, 126584>>, <<126589, 126589>>,
      <<126591, 126591>>, <<126602, 126602>>, <<126620, 126624>>, <<126628, 126628>>,
      <<126634, 126634>>, <<126652, 126703>>, <<126706, 126975>>, <<127020, 127023>>,
      <<127124, 127135>>, <<127151, 127152>>, <<127168, 127168>>, <<127184, 127184>>,
      <<127222, 127231>>, <<127406, 127461>>, <<127491, 127503>>, <<127548, 127551>>,
      <<127561, 127567>>, <<127570, 127583>>, <<127590, 127743>>, <<128729, 128731>>,
      <<128749, 128751>>, <<128765, 128767>>, <<128986, 128991>>, <<129004, 129007>>,
      <<129009, 129023>>, <<129036, 129039>>, <<129096, 129103>>, <<129114, 129119>>,
      <<129160, 129167>>, <<129198, 129199>>, <<129212, 129215>>, <<129218, 129231>>,
      <<129241, 129279>>, <<129624, 129631>>, <<129646, 129647>>, <<129661, 129663>>,
      <<129675, 129677>>, <<129735, 129735>>, <<129737, 129740>>, <<129757, 129758>>,
      <<129771, 129774>>, <<129785, 129791>>, <<129939, 129939>>, <<130043, 131071>>,
      <<173792, 173823>>, <<178206, 178207>>, <<183982, 183983>>, <<191457, 191471>>,
      <<192094, 194559>>, <<195102, 196607>>, <<201547, 201551>>, <<210042, 917759>>,
      <<918000, 1114111>> }

\* core::unicode::unicode_data::grapheme_extend: the ranges of the code points
\* with the Grapheme_Extend property, of Unicode 17.0.0
GraphemeExtend ==
    { <<768, 879>>, <<1155, 1161>>, <<1425, 1469>>, <<1471, 1471>>, <<1473, 1474>>, <<1476, 1477>>,
      <<1479, 1479>>, <<1552, 1562>>, <<1611, 1631>>, <<1648, 1648>>, <<1750, 1756>>,
      <<1759, 1764>>, <<1767, 1768>>, <<1770, 1773>>, <<1809, 1809>>, <<1840, 1866>>,
      <<1958, 1968>>, <<2027, 2035>>, <<2045, 2045>>, <<2070, 2073>>, <<2075, 2083>>,
      <<2085, 2087>>, <<2089, 2093>>, <<2137, 2139>>, <<2199, 2207>>, <<2250, 2273>>,
      <<2275, 2306>>, <<2362, 2362>>, <<2364, 2364>>, <<2369, 2376>>, <<2381, 2381>>,
      <<2385, 2391>>, <<2402, 2403>>, <<2433, 2433>>, <<2492, 2492>>, <<2494, 2494>>,
      <<2497, 2500>>, <<2509, 2509>>, <<2519, 2519>>, <<2530, 2531>>, <<2558, 2558>>,
      <<2561, 2562>>, <<2620, 2620>>, <<2625, 2626>>, <<2631, 2632>>, <<2635, 2637>>,
      <<2641, 2641>>, <<2672, 2673>>, <<2677, 2677>>, <<2689, 2690>>, <<2748, 2748>>,
      <<2753, 2757>>, <<2759, 2760>>, <<2765, 2765>>, <<2786, 2787>>, <<2810, 2815>>,
      <<2817, 2817>>, <<2876, 2876>>, <<2878, 2879>>, <<2881, 2884>>, <<2893, 2893>>,
      <<2901, 2903>>, <<2914, 2915>>, <<2946, 2946>>, <<3006, 3006>>, <<3008, 3008>>,
      <<3021, 3021>>, <<3031, 3031>>, <<3072, 3072>>, <<3076, 3076>>, <<3132, 3132>>,
      <<3134, 3136>>, <<3142, 3144>>, <<3146, 3149>>, <<3157, 3158>>, <<3170, 3171>>,
      <<3201, 3201>>, <<3260, 3260>>, <<3263, 3264>>, <<3266, 3266>>, <<3270, 3272>>,
      <<3274, 3277>>, <<3285, 3286>>, <<3298, 3299>>, <<3328, 3329>>, <<3387, 3388>>,
      <<3390, 3390>>, <<3393, 3396>>, <<3405, 3405>>, <<3415, 3415>>, <<3426, 3427>>,
      <<3457, 3457>>, <<3530, 3530>>, <<3535, 3535>>, <<3538, 3540>>, <<3542, 3542>>,
      <<3551, 3551>>, <<3633, 3633>>, <<3636, 3642>>, <<3655, 3662>>, <<3761, 3761>>,
      <<3764, 3772>>, <<3784, 3790>>, <<3864, 3865>>, <<3893, 3893>>, <<3895, 3895>>,
      <<3897, 3897>>, <<3953, 3966>>, <<3968, 3972>>, <<3974, 3975>>, <<3981, 3991>>,
      <<3993, 4028>>, <<4038, 4038>>, <<4141, 4144>>, <<4146, 4151>>, <<4153, 4154>>,
      <<4157, 4158>>, <<4184, 4185>>, <<4190, 4192>>, <<4209, 4212>>, <<4226, 4226>>,
      <<4229, 4230>>, <<4237, 4237>>, <<4253, 4253>>, <<4957, 4959>>, <<5906, 5909>>,
      <<5938, 5940>>, <<5970, 5971>>, <<6002, 6003>>, <<6068, 6069>>, <<6071, 6077>>,
      <<6086, 6086>>, <<6089, 6099>>, <<6109, 6109>>, <<6155, 6157>>, <<6159, 6159>>,
      <<6277, 6278>>, <<6313, 6313>>, <<6432, 6434>>, <<6439, 6440>>, <<6450, 6450>>,
      <<6457, 6459>>, <<6679, 6680>>, <<6683, 6683>>, <<6742, 6742>>, <<6744, 6750>>,
      <<6752, 6752>>, <<6754, 6754>>, <<6757, 6764>>, <<6771, 6780>>, <<6783, 6783>>,
      <<6832, 6877>>, <<6880, 6891>>, <<6912, 6915>>, <<6964, 6973>>, <<6978, 6980>>,
      <<7019, 7027>>, <<7040, 7041>>, <<7074, 7077>>, <<7080, 7085>>, <<7142, 7142>>,
      <<7144, 7145>>, <<7149, 7149>>, <<7151, 7155>>, <<7212, 7219>>, <<7222, 7223>>,
      <<7376, 7378>>, <<7380, 7392>>, <<7394, 7400>>, <<7405, 7405>>, <<7412, 7412>>,
      <<7416, 7417>>, <<7616, 7679>>, <<8204, 8204>>, <<8400, 8432>>, <<11503, 11505>>,
      <<11647, 11647>>, <<11744, 11775>>, <<12330, 12335>>, <<12441, 12442>>, <<42607, 42610>>,
      <<42612, 42621>>, <<42654, 42655>>, <<42736, 42737>>, <<43010, 43010>>, <<43014, 43014>>,
      <<43019, 43019>>, <<43045, 43046>>, <<43052, 43052>>, <<43204, 43205>>, <<43232, 43249>>,
      <<43263, 43263>>, <<43302, 43309>>, <<43335, 43345>>, <<43347, 43347>>, <<43392, 43394>>,
      <<43443, 43443>>, <<43446, 43449>>, <<43452, 43453>>, <<43456, 43456>>, <<43493, 43493>>,
      <<43561, 43566>>, <<43569, 43570>>, <<43573, 43574>>, <<43587, 43587>>, <<43596, 43596>>,
      <<43644, 43644>>, <<43696, 43696>>, <<43698, 43700>>, <<43703, 43704>>, <<43710, 43711>>,
      <<43713, 43713>>, <<43756, 43757>>, <<43766, 43766>>, <<44005, 44005>>, <<44008, 44008>>,
      <<44013, 44013>>, <<64286, 64286>>, <<65024, 65039>>, <<65056, 65071>>, <<65438, 65439>>,
      <<66045, 66045>>, <<66272, 66272>>, <<66422, 66426>>, <<68097, 68099>>, <<68101, 68102>>,
      <<68108, 68111>>, <<68152, 68154>>, <<68159, 68159>>, <<68325, 68326>>, <<68900, 68903>>,
      <<68969, 68973>>, <<69291, 69292>>, <<69370, 69375>>, <<69446, 69456>>, <<69506, 69509>>,
      <<69633, 69633>>, <<69688, 69702>>, <<69744, 69744>>, <<69747, 69748>>, <<69759, 69761>>,
      <<69811, 69814>>, <<69817, 69818>>, <<69826, 69826>>, <<69888, 69890>>, <<69927, 69931>>,
      <<69933, 69940>>, <<70003, 70003>>, <<70016, 70017>>, <<70070, 70078>>, <<70080, 70080>>,
      <<70089, 70092>>, <<70095, 70095>>, <<70191, 70193>>, <<70196, 70199>>, <<70206, 70206>>,
      <<70209, 70209>>, <<70367, 70367>>, <<70371, 70378>>, <<70400, 70401>>, <<70459, 70460>>,
      <<70462, 70462>>, <<70464, 70464>>, <<70477, 70477>>, <<70487, 70487>>, <<70502, 70508>>,
      <<70512, 70516>>, <<70584, 70584>>, <<70587, 70592>>, <<70594, 70594>>, <<70597, 70597>>,
      <<70599, 70601>>, <<70606, 70608>>, <<70610, 70610>>, <<70625, 70626>>, <<70712, 70719>>,
      <<70722, 70724>>, <<70726, 70726>>, <<70750, 70750>>, <<70832, 70832>>, <<70835, 70840>>,
      <<70842, 70842>>, <<70845, 70845>>, <<70847, 70848>>, <<70850, 70851>>, <<71087, 71087>>,
      <<71090, 71093>>, <<71100, 71101>>, <<71103, 71104>>, <<71132, 71133>>, <<71219, 71226>>,
      <<71229, 71229>>, <<71231, 71232>>, <<71339, 71339>>, <<71341, 71341>>, <<71344, 71351>>,
      <<71453, 71453>>, <<71455, 71455>>, <<71458, 71461>>, <<71463, 71467>>, <<71727, 71735>>,
      <<71737, 71738>>, <<71984, 71984>>, <<71995, 71998>>, <<72003, 72003>>, <<72148, 72151>>,
      <<72154, 72155>>, <<72160, 72160>>, <<72193, 72202>>, <<72243, 72248>>, <<72251, 72254>>,
      <<72263, 72263>>, <<72273, 72278>>, <<72281, 72283>>, <<72330, 72342>>, <<72344, 72345>>,
      <<72544, 72544>>, <<72546, 72548>>, <<72550, 72550>>, <<72752, 72758>>, <<72760, 72765>>,
      <<72767, 72767>>, <<72850, 72871>>, <<72874, 72880>>, <<72882, 72883>>, <<72885, 72886>>,
      <<73009, 73014>>, <<73018, 73018>>, <<73020, 73021>>, <<73023, 73029>>, <<73031, 73031>>,
      <<73104, 73105>>, <<73109, 73109>>, <<73111, 73111>>, <<73459, 73460>>, <<73472, 73473>>,
      <<73526, 73530>>, <<73536, 73538>>, <<73562, 73562>>, <<78912, 78912>>, <<78919, 78933>>,
      <<90398, 90409>>, <<90413, 90415>>, <<92912, 92916>>, <<92976, 92982>>, <<94031, 94031>>,
      <<94095, 94098>>, <<94180, 94180>>, <<94192, 94193>>, <<113821, 113822>>, <<118528, 118573>>,
      <<118576, 118598>>, <<119141, 119145>>, <<119149, 119154>>, <<119163, 119170>>,
      <<119173, 119179>>, <<119210, 119213>>, <<119362, 119364>>, <<121344, 121398>>,
      <<121403, 121452>>, <<121461, 121461>>, <<121476, 121476>>, <<121499, 121503>>,
      <<121505, 121519>>, <<122880, 122886>>, <<122888, 122904>>, <<122907, 122913>>,
      <<122915, 122916>>, <<122918, 122922>>, <<123023, 123023>>, <<123184, 123190>>,
      <<123566, 123566>>, <<123628, 123631>>, <<124140, 124143>>, <<124398, 124399>>,
      <<124643, 124643>>, <<124646, 124646>>, <<124654, 124655>>, <<124661, 124661>>,
      <<125136, 125142>>, <<125252, 125258>>, <<917536, 917631>>, <<917760, 917999>> }

\* core::unicode::printable::is_printable
is_printable(c) ==
    IF c < 32 THEN FALSE
    ELSE IF c < 127 THEN TRUE
    ELSE ~(\E r \in NotPrintable : r[1] <= c /\ c <= r[2])

\* char::is_grapheme_extended
is_grapheme_extended(c) == c > 127 /\ (\E r \in GraphemeExtend : r[1] <= c /\ c <= r[2])

\* the lower-case hexadecimal digits of a code point, without leading zeros
RECURSIVE hex_digits(_)
hex_digits(c) ==
    LET digit(d) == IF d < 10 THEN 48 + d ELSE 87 + d
    IN  IF c < 16 THEN <<digit(c)>> ELSE hex_digits(c \div 16) \o <<digit(c % 16)>>

\* char::escape_debug_ext as `{:?}` of a str calls it for each of its chars
\* (double quote escaped, single quote not, grapheme extenders escaped): a
\* backslash escape for the NUL, tab, carriage return, line feed, backslash
\* and double quote, \u{..} with the hexadecimal digits of the code point for
\* a grapheme extender and for a char that is not printable, the char itself
\* otherwise
escape_debug(c) ==
    CASE c = 0 -> <<92, 48>>
      [] c = 9 -> <<92, 116>>
      [] c = 13 -> <<92, 114>>
      [] c = 10 -> <<92, 110>>
      [] c \in {92, 34} -> <<92, c>>
      [] OTHER ->
            IF is_grapheme_extended(c) \/ ~is_printable(c)
            THEN <<92, 117, 123>> \o hex_digits(c) \o <<125>>
            ELSE encode_utf8(c)

\* impl Debug for str: the text between double quotes, its chars escaped
RECURSIVE str_Debug(_)
str_Debug(s) == IF Len(s) = 0 THEN <<>> ELSE escape_debug(s[1]) \o str_Debug(Tail(s))

\* a native scalar of type ty
Native(ty, v) == [ty |-> ty, v |-> v]

\* a string slice: where it lives and what it says
Str(ptr, text) == [ptr |-> ptr, text |-> text]

\* str::to_owned / String::from: the same text in a fresh heap allocation
to_owned(s) == [ptr |-> 0, text |-> s.text]

\* a value of a caller's type behind &dyn Debug / Display / Error / sval::Value:
\* its type, the text it holds (its Display writes the text, its Debug the
\* type's name and the text as a str in parentheses, as derive(Debug) does
\* for a tuple struct), whether its fmt succeeds, and the primitive it
\* streams as an sval::Value (PrimitiveNone when it streams a map or sequence)
Object(ty, name, fmt_ok, emits) == [ty |-> ty, name |-> name, fmt_ok |-> fmt_ok, emits |-> emits]

(***************************************************************************)
(* Primitive (src/src/kv/value/internal/mod.rs)                            *)
(***************************************************************************)

Primitive(kind, v) == [kind |-> kind, v |-> v]

PrimitiveNone == Primitive("None", <<>>)

\* impl From<T> for Primitive, T a native scalar
Primitive_from(x) ==
    CASE x.ty \in UnsignedTypes -> Primitive("Unsigned", ZeroExtend(x.v, 64))
      [] x.ty \in SignedTypes -> Primitive("Signed", SignExtend(x.v, 64))
      [] x.ty = "f32" -> Primitive("Float", f32_as_f64(x.v))
      [] x.ty = "f64" -> Primitive("Float", x.v)
      [] x.ty = "bool" -> Primitive("Bool", x.v)
      [] x.ty = "char" -> Primitive("Char", x.v)
      [] x.ty = "str" -> Primitive("Str", x.v)
      [] x.ty = "Arguments" -> Primitive("Fmt", x.v)

\* a call on the Visitor: the method and its argument
Call(method, arg) == [method |-> method, arg |-> arg]

\* faulty variant: Primitive::visit announcing None through debug, as the
\* formatted text "None"
Primitive_visit_none_debug(p) ==
    CASE p.kind = "Signed" -> Call("i64", p.v)
      [] p.kind = "Unsigned" -> Call("u64", p.v)
      [] p.kind = "Float" -> Call("f64", p.v)
      [] p.kind = "Bool" -> Call("bool", p.v)
      [] p.kind = "Char" -> Call("char", p.v)
      [] p.kind = "Str" -> Call("borrowed_str", p.v)
      [] p.kind = "Fmt" -> Call("debug", p.v)
      [] p.kind = "None" -> Call("debug", [ty |-> "Literal", name |-> utf("None"), fmt_ok |-> TRUE, emits |-> <<>>])

\* faulty variant: Primitive::visit announcing a Str through str
Primitive_visit_str(p) ==
    CASE p.kind = "Signed" -> Call("i64", p.v)
      [] p.kind = "Unsigned" -> Call("u64", p.v)
      [] p.kind = "Float" -> Call("f64", p.v)
      [] p.kind = "Bool" -> Call("bool", p.v)
      [] p.kind = "Char" -> Call("char", p.v)
      [] p.kind = "Str" -> Call("str", p.v)
      [] p.kind = "Fmt" -> Call("debug", p.v)
      [] p.kind = "None" -> Call("none", <<>>)

\* Primitive::visit: the one visitor call a primitive makes
Primitive_visit(p) ==
    CASE p.kind = "Signed" -> Call("i64", p.v)
      [] p.kind = "Unsigned" -> Call("u64", p.v)
      [] p.kind = "Float" -> Call("f64", p.v)
      [] p.kind = "Bool" -> Call("bool", p.v)
      [] p.kind = "Char" -> Call("char", p.v)
      [] p.kind = "Str" -> Call("borrowed_str", p.v)
      [] p.kind = "Fmt" -> Call("debug", p.v)
      [] p.kind = "None" -> Call("none", <<>>)

(***************************************************************************)
(* Inner and Value                                                         *)
(***************************************************************************)

NoTypeId == "-"

\* Value { inner }: the active variant, what it holds or borrows, and the
\* identity token of the captured type if one was recorded
Inner(tag, v, type_id) == [tag |-> tag, value |-> v, type_id |-> type_id]

\* Value::from_primitive
from_primitive(p) == Inner("Primitive", p, NoTypeId)

\* Value::from_fill
from_fill(f) == Inner("Fill", f, NoTypeId)

\* cast::type_id::<T>() and Any::type_id: the identity of the concrete type
\* of a captured &T, by the type's name
type_id(x) == IF "of" \in DOMAIN x THEN "Option<" \o x.of \o ">" ELSE x.ty

\* faulty variant: from_debug recording the type's identity
from_debug_tagged(o) == Inner("Debug", o, type_id(o))

\* Value::from_debug and From<&dyn Debug>
from_debug(o) == Inner("Debug", o, NoTypeId)

\* Value::from_display and From<&dyn Display>
from_display(o) == Inner("Display", o, NoTypeId)

\* From<&dyn Error>
from_dyn_error(o) == Inner("Error", o, NoTypeId)

\* From<&dyn sval::Value>
from_dyn_sval(o) == Inner("Sval", o, NoTypeId)

\* the visitor call of an Error value
Inner_visit_error(o) == Call("error", o)

\* Inner::visit for every variant but Fill: the one visitor call it makes
Inner_visit(inner) ==
    CASE inner.tag = "Primitive" -> Primitive_visit(inner.value)
      [] inner.tag = "Debug" -> Call("debug", inner.value)
      [] inner.tag = "Display" -> Call("display", inner.value)
      [] inner.tag = "Sval" -> Call("sval", inner.value)
      [] inner.tag = "Error" -> Inner_visit_error(inner.value)

\* ToValue / From<T> for Value, T a native scalar
to_value(x) == from_primitive(Primitive_from(x))

\* faulty variant: Option::None captured as zero
to_value_option_zero(o) ==
    IF o.v = None THEN from_primitive(Primitive("Unsigned", Zeros(64))) ELSE to_value(Native(o.of, o.v[1]))

\* ToValue for Option<T>: T's conversion when present, else none
to_value_option(o) == IF o.v = None THEN from_primitive(PrimitiveNone) ELSE to_value(Native(o.of, o.v[1]))

\* the types the build script lists for the table TYPE_IDS; the table holds
\* each of them and the Option of each (&str is named str here)
type_ids == {"usize", "u8", "u16", "u32", "u64", "isize", "i8", "i16", "i32", "i64", "f32", "f64", "char", "bool", "str"}

\* faulty variant: a table without the Option entries
from_any_no_option(x) ==
    IF "of" \in DOMAIN x THEN None
    ELSE IF x.ty \in type_ids THEN Some(Primitive_from(x))
    ELSE None

\* primitive::from_any, the table of the default build: the entry for the
\* value's type converts it, an Option entry giving Primitive::None for None
from_any(x) ==
    IF "of" \in DOMAIN x THEN
        (IF x.of \in type_ids
         THEN Some(IF Len(x.v) = 0 THEN PrimitiveNone ELSE Primitive_from(Native(x.of, x.v[1])))
         ELSE None)
    ELSE IF x.ty \in type_ids THEN Some(Primitive_from(x))
    ELSE None

\* cast::try_from_primitive
try_from_primitive(x) == IF Len(from_any(x)) = 0 THEN None ELSE Some(from_primitive(from_any(x)[1]))

\* Value::capture_debug: a primitive if the type is one, else Inner::Debug(value)
capture_debug(x) == IF Len(try_from_primitive(x)) > 0 THEN try_from_primitive(x)[1] ELSE Inner("Debug", x, NoTypeId)

\* Value::capture_display, for a T: fmt::Display (an Option is none): a
\* primitive if the type is one, else Inner::Display(value)
capture_display(x) == IF Len(try_from_primitive(x)) > 0 THEN try_from_primitive(x)[1] ELSE Inner("Display", x, NoTypeId)

\* Value::capture_error: Inner::Error with the type's identity
capture_error(x) == Inner("Error", x, type_id(x))

\* Value::capture_sval: a primitive if the type is one, else Inner::Sval with
\* the type's identity
capture_sval(x) == IF Len(try_from_primitive(x)) > 0 THEN try_from_primitive(x)[1] ELSE Inner("Sval", x, type_id(x))

\* Value::downcast_ref::<T>(): the captured reference when the variant holds
\* Some(type_id) and it is T's
downcast_ref(inner, T) ==
    IF inner.tag \in {"Debug", "Display", "Error", "Sval"} /\ inner.type_id # NoTypeId /\ inner.type_id = T
    THEN Some(inner.value)
    ELSE None

\* Value::is::<T>()
is(inner, T) == Len(downcast_ref(inner, T)) > 0

(***************************************************************************)
(* std::fmt, symbolically: what a formatter receives is a sequence of      *)
(* pieces, each the Debug or Display rendering of one thing                *)
(***************************************************************************)

Written(style, x) == [style |-> style, of |-> x]

\* format_args!("{}", v): an Arguments whose Debug and Display are v's Display
Arguments(v) == [ty |-> "Arguments", name |-> v, fmt_ok |-> v.fmt_ok, emits |-> <<>>]

\* format_args!("None")
ArgumentsNone == [ty |-> "Literal", name |-> utf("None"), fmt_ok |-> TRUE, emits |-> <<>>]

\* fmt::Display::fmt(v, f) for an erased v: the result and what was written
Display_fmt(v) ==
    IF ~v.fmt_ok THEN [res |-> "Err", out |-> <<>>]
    ELSE IF v.ty = "Literal" THEN [res |-> "Ok", out |-> <<Written("Literal", v.name)>>]
    ELSE IF v.ty = "Arguments" THEN [res |-> "Ok", out |-> <<Written("Display", v.name)>>]
    ELSE [res |-> "Ok", out |-> <<Written("Display", v)>>]

\* fmt::Debug::fmt(v, f) for an erased v
Debug_fmt(v) ==
    IF v.ty \in {"Literal", "Arguments"} THEN Display_fmt(v)
    ELSE IF ~v.fmt_ok THEN [res |-> "Err", out |-> <<>>]
    ELSE [res |-> "Ok", out |-> <<Written("Debug", v)>>]

(***************************************************************************)
(* The Visitor contract and the visitors of the crate.  A visitor is a     *)
(* record [kind, cast, out]; a handler takes the visitor and the call and  *)
(* returns the visitor afterwards, the method's result, and `via`, the     *)
(* method that did the work (the default display forwards to debug, the    *)
(* default borrowed_str to str).                                           *)
(***************************************************************************)

Handled(vis, res, via) == [vis |-> vis, res |-> res, via |-> via]

\* Cast::Primitive / Cast::String and Coerced::Primitive / Coerced::String
Cast(kind, v) == [kind |-> kind, v |-> v]

\* sval::cast: stream the value into a CastStream, drop the stream's result
sval_cast(o) ==
    IF o.emits.kind \in {"Unsigned", "Signed", "Float", "Char", "Bool"} THEN Cast("Primitive", o.emits)
    ELSE IF o.emits.kind = "Str" THEN Cast("String", to_owned(o.emits.v))
    ELSE Cast("Primitive", PrimitiveNone)

\* sval::coerce, the same stream for the strict layer
sval_coerce(o) == sval_cast(o)

\* the error method of a visitor that keeps nothing of an error
Visitor_error(vis, call) == Handled(vis, "Ok", "error")

\* impl Visitor for CastVisitor
CastVisitor(vis, call) ==
    CASE call.method = "debug" -> Handled(vis, "Ok", "debug")
      [] call.method = "display" -> Handled(vis, "Ok", "debug")
      [] call.method = "u64" -> Handled([vis EXCEPT !.cast = Cast("Primitive", Primitive("Unsigned", call.arg))], "Ok", "u64")
      [] call.method = "i64" -> Handled([vis EXCEPT !.cast = Cast("Primitive", Primitive("Signed", call.arg))], "Ok", "i64")
      [] call.method = "f64" -> Handled([vis EXCEPT !.cast = Cast("Primitive", Primitive("Float", call.arg))], "Ok", "f64")
      [] call.method = "bool" -> Handled([vis EXCEPT !.cast = Cast("Primitive", Primitive("Bool", call.arg))], "Ok", "bool")
      [] call.method = "char" -> Handled([vis EXCEPT !.cast = Cast("Primitive", Primitive("Char", call.arg))], "Ok", "char")
      [] call.method = "str" -> Handled([vis EXCEPT !.cast = Cast("String", to_owned(call.arg))], "Ok", "str")
      [] call.method = "borrowed_str" -> Handled([vis EXCEPT !.cast = Cast("Primitive", Primitive("Str", call.arg))], "Ok", "borrowed_str")
      [] call.method = "none" -> Handled([vis EXCEPT !.cast = Cast("Primitive", PrimitiveNone)], "Ok", "none")
      [] call.method = "error" -> Handled(vis, "Ok", "error")
      [] call.method = "sval" -> Handled([vis EXCEPT !.cast = sval_cast(call.arg)], "Ok", "sval")

\* impl Visitor for Coerce (the strict layer's visitor)
CoerceVisitor(vis, call) ==
    CASE call.method = "debug" -> Handled(vis, "Ok", "debug")
      [] call.method = "display" -> Handled(vis, "Ok", "debug")
      [] call.method = "u64" -> Handled([vis EXCEPT !.cast = Cast("Primitive", Primitive("Unsigned", call.arg))], "Ok", "u64")
      [] call.method = "i64" -> Handled([vis EXCEPT !.cast = Cast("Primitive", Primitive("Signed", call.arg))], "Ok", "i64")
      [] call.method = "f64" -> Handled([vis EXCEPT !.cast = Cast("Primitive", Primitive("Float", call.arg))], "Ok", "f64")
      [] call.method = "bool" -> Handled([vis EXCEPT !.cast = Cast("Primitive", Primitive("Bool", call.arg))], "Ok", "bool")
      [] call.method = "char" -> Handled([vis EXCEPT !.cast = Cast("Primitive", Primitive("Char", call.arg))], "Ok", "char")
      [] call.method = "borrowed_str" -> Handled([vis EXCEPT !.cast = Cast("Primitive", Primitive("Str", call.arg))], "Ok", "borrowed_str")
      [] call.method = "str" -> Handled([vis EXCEPT !.cast = Cast("String", to_owned(call.arg))], "Ok", "str")
      [] call.method = "none" -> Handled([vis EXCEPT !.cast = Cast("Primitive", PrimitiveNone)], "Ok", "none")
      [] call.method = "sval" -> Handled([vis EXCEPT !.cast = sval_coerce(call.arg)], "Ok", "sval")
      [] call.method = "error" -> Visitor_error(vis, call)

\* a formatting visitor writing one piece
Write(vis, r, via) == Handled([vis EXCEPT !.out = vis.out \o r.out], r.res, via)

\* a formatting visitor's error method: the error's own Debug / Display
FmtVisitor_error(vis, call, style) ==
    IF style = "Debug" THEN Write(vis, Debug_fmt(call.arg), "error") ELSE Write(vis, Display_fmt(call.arg), "error")

\* sval::fmt: sval's debug rendering of the streamed value
sval_fmt(o) == IF o.fmt_ok THEN [res |-> "Ok", out |-> <<Written("Sval", o)>>] ELSE [res |-> "Err", out |-> <<>>]

\* impl Visitor for DebugVisitor (fmt::Debug for Value)
DebugVisitor(vis, call) ==
    CASE call.method = "debug" -> Write(vis, Debug_fmt(call.arg), "debug")
      [] call.method = "display" -> Write(vis, Display_fmt(call.arg), "display")
      [] call.method \in {"u64", "i64", "f64", "bool", "char", "str"} -> Write(vis, [res |-> "Ok", out |-> <<Written("Debug", call)>>], call.method)
      [] call.method = "borrowed_str" -> Write(vis, [res |-> "Ok", out |-> <<Written("Debug", Call("str", call.arg))>>], "str")
      [] call.method = "none" -> Write(vis, Debug_fmt(ArgumentsNone), "debug")
      [] call.method = "sval" -> Write(vis, sval_fmt(call.arg), "sval")
      [] call.method = "error" -> FmtVisitor_error(vis, call, "Debug")

\* faulty variant: a DisplayVisitor whose debug formats with Display
DisplayVisitor_debug_as_display(vis, call) ==
    CASE call.method = "debug" -> Write(vis, Display_fmt(call.arg), "debug")
      [] call.method = "display" -> Write(vis, Display_fmt(call.arg), "display")
      [] call.method \in {"u64", "i64", "f64", "bool", "char", "str"} -> Write(vis, [res |-> "Ok", out |-> <<Written("Display", call)>>], call.method)
      [] call.method = "borrowed_str" -> Write(vis, [res |-> "Ok", out |-> <<Written("Display", Call("str", call.arg))>>], "str")
      [] call.method = "none" -> Write(vis, Debug_fmt(ArgumentsNone), "debug")
      [] call.method = "sval" -> Write(vis, sval_fmt(call.arg), "sval")
      [] call.method = "error" -> FmtVisitor_error(vis, call, "Display")

\* impl Visitor for DisplayVisitor (fmt::Display for Value)
DisplayVisitor(vis, call) ==
    CASE call.method = "debug" -> Write(vis, Debug_fmt(call.arg), "debug")
      [] call.method = "display" -> Write(vis, Display_fmt(call.arg), "display")
      [] call.method \in {"u64", "i64", "f64", "bool", "char", "str"} -> Write(vis, [res |-> "Ok", out |-> <<Written("Display", call)>>], call.method)
      [] call.method = "borrowed_str" -> Write(vis, [res |-> "Ok", out |-> <<Written("Display", Call("str", call.arg))>>], "str")
      [] call.method = "none" -> Write(vis, Debug_fmt(ArgumentsNone), "debug")
      [] call.method = "sval" -> Write(vis, sval_fmt(call.arg), "sval")
      [] call.method = "error" -> FmtVisitor_error(vis, call, "Display")

\* the bytes of test::Buffer
BufferLen == 16

\* the bytes Buffer::write_str is given for a rendering: a literal is its
\* text, a caller's type writes its text as its Display and the type's
\* name, `("`, the escaped text and `")` as its Debug
RECURSIVE text_len(_)
text_len(out) ==
    IF Len(out) = 0 THEN 0
    ELSE (CASE out[1].style = "Literal" -> Len(as_bytes(out[1].of))
            [] out[1].style = "Display" -> Len(as_bytes(out[1].of.name))
            [] out[1].style = "Debug" -> Len(as_bytes(utf(out[1].of.ty))) + 2 + Len(str_Debug(out[1].of.name)) + 2)
         + text_len(Tail(out))

\* the test visitor on an error or an sval value: it keeps a token of the kind
TestVisitor_other(vis, call) == Handled([vis EXCEPT !.token = Some(Call(call.method, <<>>))], "Ok", call.method)

\* TestVisitor::debug: render into the buffer, keep the text as a Str token;
\* Buffer::write_str panics when the text would not fit, and the method
\* gives "Overflow" for the panic that unwinds through the visit
TestVisitor_debug(vis, v) ==
    IF Debug_fmt(v).res = "Err" THEN Handled(vis, "Err", "debug")
    ELSE IF text_len(Debug_fmt(v).out) > BufferLen THEN Handled(vis, "Overflow", "debug")
    ELSE Handled([vis EXCEPT !.token = Some(Call("str", Debug_fmt(v).out))], "Ok", "debug")

\* TestVisitor::str: Token::Str(v.into()) copies the text into a buffer
TestVisitor_str(vis, v) ==
    IF Len(as_bytes(v.text)) > BufferLen THEN Handled(vis, "Overflow", "str")
    ELSE Handled([vis EXCEPT !.token = Some(Call("str", v))], "Ok", "str")

\* impl Visitor for TestVisitor (Value::to_token): it keeps the last token; debug
\* renders into a buffer; display and borrowed_str are the trait's defaults
TestVisitor(vis, call) ==
    CASE call.method = "debug" -> TestVisitor_debug(vis, call.arg)
      [] call.method = "display" -> TestVisitor_debug(vis, Arguments(call.arg))
      [] call.method \in {"u64", "i64", "f64", "bool", "char", "none"} -> Handled([vis EXCEPT !.token = Some(call)], "Ok", call.method)
      [] call.method \in {"str", "borrowed_str"} -> TestVisitor_str(vis, call.arg)
      [] call.method \in {"error", "sval"} -> TestVisitor_other(vis, call)

\* a visitor of the given kind, as its owner constructs it
NewVisitor(kind) == [kind |-> kind, cast |-> Cast("Primitive", PrimitiveNone), out |-> <<>>, token |-> None]

\* dynamic dispatch of one call on &mut dyn Visitor
Visitor_call(vis, call) ==
    CASE vis.kind = "Test" -> TestVisitor(vis, call)
      [] vis.kind = "Cast" -> CastVisitor(vis, call)
      [] vis.kind = "Coerce" -> CoerceVisitor(vis, call)
      [] vis.kind = "Debug" -> DebugVisitor(vis, call)
      [] vis.kind = "Display" -> DisplayVisitor(vis, call)

(***************************************************************************)
(* The permissive cast layer (src/src/kv/value/internal/cast/mod.rs)       *)
(***************************************************************************)

\* Cast::into_primitive
into_primitive(c) == IF c.kind = "Primitive" THEN c.v ELSE PrimitiveNone

\* Primitive::into_borrowed_str
into_borrowed_str(p) == IF p.kind = "Str" THEN Some(p.v) ELSE None

\* faulty variant: Primitive::into_u64 matching its own kind only
into_u64_exact(p) == IF p.kind = "Unsigned" THEN Some(p.v) ELSE None

\* Primitive::into_u64
into_u64(p) ==
    CASE p.kind = "Unsigned" -> Some(p.v)
      [] p.kind = "Signed" -> Some(p.v)
      [] p.kind = "Float" -> Some(f64_as_u64(p.v))
      [] OTHER -> None

\* Primitive::into_i64
into_i64(p) ==
    CASE p.kind = "Signed" -> Some(p.v)
      [] p.kind = "Unsigned" -> Some(p.v)
      [] p.kind = "Float" -> Some(f64_as_i64(p.v))
      [] OTHER -> None

\* Primitive::into_f64
into_f64(p) ==
    CASE p.kind = "Float" -> Some(p.v)
      [] p.kind = "Unsigned" -> Some(u64_as_f64(p.v))
      [] p.kind = "Signed" -> Some(i64_as_f64(p.v))
      [] OTHER -> None

\* faulty variant: a permissive Primitive::into_char that never answers
into_char_never(p) == None

\* Primitive::into_char
into_char(p) == IF p.kind = "Char" THEN Some(p.v) ELSE None

\* faulty variant: Primitive::into_bool answering for every kind
into_bool_lenient(p) == IF p.kind = "Bool" THEN Some(p.v) ELSE Some(FALSE)

\* Primitive::into_bool
into_bool(p) == IF p.kind = "Bool" THEN Some(p.v) ELSE None

\* faulty variant: Cast::into_str without its Cast::String arm
into_str_borrowed_only(c) == IF c.kind = "Primitive" /\ c.v.kind = "Str" THEN Some(c.v.v) ELSE None

\* Cast::into_str: the borrowed slice or the owned string
into_str(c) ==
    IF c.kind = "Primitive" /\ c.v.kind = "Str" THEN Some(c.v.v)
    ELSE IF c.kind = "String" THEN Some(c.v)
    ELSE None

\* faulty variant: Value::to_i16 narrowing to eight bits
to_i16_as_i8(c) == MapTruncate(into_i64(into_primitive(c)), 8)

\* Value::to_usize .. Value::to_str, applied to what Inner::cast returned
to_usize(c) == MapTruncate(into_u64(into_primitive(c)), 64)

to_u8(c) == MapTruncate(into_u64(into_primitive(c)), 8)

to_u16(c) == MapTruncate(into_u64(into_primitive(c)), 16)

to_u32(c) == MapTruncate(into_u64(into_primitive(c)), 32)

to_u64(c) == into_u64(into_primitive(c))

to_isize(c) == MapTruncate(into_i64(into_primitive(c)), 64)

to_i8(c) == MapTruncate(into_i64(into_primitive(c)), 8)

to_i16(c) == MapTruncate(into_i64(into_primitive(c)), 16)

to_i32(c) == MapTruncate(into_i64(into_primitive(c)), 32)

to_i64(c) == into_i64(into_primitive(c))

to_f32(c) == IF into_f64(into_primitive(c)) = None THEN None ELSE Some(f64_as_f32(into_f64(into_primitive(c))[1]))

to_f64(c) == into_f64(into_primitive(c))

to_bool(c) == into_bool(into_primitive(c))

to_char(c) == into_char(into_primitive(c))

to_borrowed_str(c) == into_borrowed_str(into_primitive(c))

to_str(c) == into_str(c)

CastTargets == {"usize", "u8", "u16", "u32", "u64", "isize", "i8", "i16", "i32", "i64", "f32", "f64", "bool", "char", "borrowed_str", "str"}

\* the to_* method named by its target
to_(target, c) ==
    CASE target = "usize" -> to_usize(c)
      [] target = "u8" -> to_u8(c)
      [] target = "u16" -> to_u16(c)
      [] target = "u32" -> to_u32(c)
      [] target = "u64" -> to_u64(c)
      [] target = "isize" -> to_isize(c)
      [] target = "i8" -> to_i8(c)
      [] target = "i16" -> to_i16(c)
      [] target = "i32" -> to_i32(c)
      [] target = "i64" -> to_i64(c)
      [] target = "f32" -> to_f32(c)
      [] target = "f64" -> to_f64(c)
      [] target = "bool" -> to_bool(c)
      [] target = "char" -> to_char(c)
      [] target = "borrowed_str" -> to_borrowed_str(c)
      [] target = "str" -> to_str(c)

(***************************************************************************)
(* The strict coerce layer (src/src/kv/value/internal/coerce.rs)           *)
(***************************************************************************)

\* Coerced::into_primitive
coerced_into_primitive(c) == IF c.kind = "Primitive" THEN c.v ELSE PrimitiveNone

\* Primitive::into_str / into_u64 / into_i64 / into_f64 / into_char / into_bool
\* of the strict layer: only the exact kind
coerce_into(kind, p) == IF p.kind = kind THEN Some(p.v) ELSE None

\* Coerced::into_string
into_string(c) ==
    IF c.kind = "Primitive" /\ c.v.kind = "Str" THEN Some(c.v.v)
    ELSE IF c.kind = "String" THEN Some(c.v)
    ELSE None

CoerceTargets == {"u8", "u16", "u32", "u64", "i8", "i16", "i32", "i64", "f32", "f64", "bool", "char", "str", "string"}

\* Value::get_str .. Value::get_string, applied to what Inner::coerce returned
get_(target, c) ==
    CASE target = "str" -> coerce_into("Str", coerced_into_primitive(c))
      [] target \in {"u8", "u16", "u32"} -> MapTruncate(coerce_into("Unsigned", coerced_into_primitive(c)), BitsOfType(target))
      [] target = "u64" -> coerce_into("Unsigned", coerced_into_primitive(c))
      [] target \in {"i8", "i16", "i32"} -> MapTruncate(coerce_into("Signed", coerced_into_primitive(c)), BitsOfType(target))
      [] target = "i64" -> coerce_into("Signed", coerced_into_primitive(c))
      [] target = "f32" -> IF coerce_into("Float", coerced_into_primitive(c)) = None THEN None ELSE Some(f64_as_f32(coerce_into("Float", coerced_into_primitive(c))[1]))
      [] target = "f64" -> coerce_into("Float", coerced_into_primitive(c))
      [] target = "char" -> coerce_into("Char", coerced_into_primitive(c))
      [] target = "bool" -> coerce_into("Bool", coerced_into_primitive(c))
      [] target = "string" -> into_string(c)

(***************************************************************************)
(* Fill and Slot (src/src/kv/value/mod.rs).  A Fill implementation is      *)
(* caller code: a straight-line body of fill_* calls on the slot it is     *)
(* handed, each either propagated with `?` or dropped, and then the value  *)
(* it returns.                                                             *)
(***************************************************************************)

\* a statement `slot.fill_*(..)` of a Fill body: try is TRUE when its error
\* is returned at once (`?`, or the call is the tail expression)
FillStep(method, v, try) == [method |-> method, value |-> v, try |-> try]

\* Slot::fill_any(value): value.into().inner is visited under the guard
fill_any(v, try) == FillStep("fill_any", v, try)

\* Slot::fill_debug(value): visitor.debug(&value) under the guard
fill_debug(o, try) == FillStep("fill_debug", from_debug(o), try)

\* Slot::fill_display(value): visitor.display(&value) under the guard
fill_display(o, try) == FillStep("fill_display", from_display(o), try)

\* Slot::fill_error(value): visitor.error(&value) under the guard
fill_error(o, try) == FillStep("fill_error", from_dyn_error(o), try)

\* Slot::fill_sval(value): visitor.sval(&value) under the guard
fill_sval(o, try) == FillStep("fill_sval", from_dyn_sval(o), try)

\* impl Fill: the body and what it returns when it runs to its end
FillBody(steps, ret) == [steps |-> steps, ret |-> ret]

\* faulty variant: a Slot that is born filled
Slot_new_filled(vis) == [filled |-> TRUE]

\* faulty variant: a Slot that outlives the visit it was made for
Slot_new_reused(vis) == [filled |-> Len(first) > 0]

\* Slot::new
Slot_new(vis) == [filled |-> FALSE]

\* faulty variant: Slot::fill without its assert
Slot_is_filled_unchecked(slot) == FALSE

\* the condition of the assert in Slot::fill
Slot_is_filled(slot) == slot.filled

\* faulty variant: Slot::fill without `self.filled = true`
Slot_mark_forgotten(slot) == slot

\* self.filled = true
Slot_mark(slot) == [slot EXCEPT !.filled = TRUE]

\* one activation of Fill::fill: the body, the statement it is at, its slot,
\* and the error it is returning early, if any
Frame(f, vis) == [fill |-> f, pos |-> 1, slot |-> Slot_new(vis), early |-> "-"]

\* faulty variant: a Slot marked filled only by a fill_* call that succeeded
AfterFill_filled_on_success(frame, r) ==
    IF r = "Err" THEN
        IF frame.fill.steps[frame.pos].try THEN [frame EXCEPT !.early = "Err", !.slot = [filled |-> FALSE]]
        ELSE [frame EXCEPT !.pos = frame.pos + 1, !.slot = [filled |-> FALSE]]
    ELSE [frame EXCEPT !.pos = frame.pos + 1]

\* the activation after its current fill_* call returned r
AfterFill(frame, r) ==
    IF frame.fill.steps[frame.pos].try /\ r = "Err" THEN [frame EXCEPT !.early = "Err"]
    ELSE [frame EXCEPT !.pos = frame.pos + 1]

(***************************************************************************)
(* The values the model captures                                           *)
(***************************************************************************)

\* the longest Fill body, in fill_* statements
MaxSteps == 2

\* the operations run on one Value
MaxOps == 3

Point == Object("Point", utf("the origin"), TRUE, PrimitiveNone)

Broken == Object("Broken", utf("broken"), FALSE, PrimitiveNone)

\* a type whose text fits the buffer of the test visitor by its chars and
\* not by its bytes, written by Display or by Debug
Accented == Object("Pt", utf("ééééééééé"), TRUE, PrimitiveNone)

\* a type whose Debug fits it by its chars and not with their escapes
Quoted == Object("Pt", utf("a\"b\"c\"d\"e"), TRUE, PrimitiveNone)

\* a type whose text is three soft hyphens (U+00AD), which Debug writes as
\* \u{ad} each: its Debug is 24 bytes, 12 were the chars written as they are
Hyphenated == Object("Pt", <<173, 173, 173>>, TRUE, PrimitiveNone)

\* a type whose text is three U+088F, a letter, printable: its Debug writes
\* them as they are, 15 bytes
Lettered == Object("Pt", <<2191, 2191, 2191>>, TRUE, PrimitiveNone)

\* a type whose text holds U+0CC0, a spacing mark that is a grapheme
\* extender: its Debug writes \u{cc0} for it, 17 bytes
Extended == Object("Pt", <<97, 98, 3264, 99, 100>>, TRUE, PrimitiveNone)

IoError == Object("io::Error", utf("not found"), TRUE, PrimitiveNone)

SvalNumber == Object("SvalNumber", utf("n"), TRUE, Primitive("Unsigned", BitsOf(42, 64)))

SvalText == Object("SvalText", utf("t"), TRUE, Primitive("Str", Str(2, utf("short lived"))))

SvalMap == Object("SvalMap", utf("m"), FALSE, PrimitiveNone)

\* a Fill that fills its slot once with a borrowed string
FillsOnce == FillBody(<<fill_any(to_value(Native("str", Str(1, utf("a string")))), TRUE)>>, "Ok")

\* a Fill that fails without filling
FillsNothing == FillBody(<<>>, "Err")

\* the fill_* statements Fill bodies are built from
Statements ==
    << fill_any(to_value(Native("u64", BitsOf(42, 64))), TRUE),
       fill_debug(Broken, TRUE),
       fill_display(Point, FALSE),
       fill_error(IoError, TRUE),
       fill_sval(SvalNumber, TRUE),
       fill_any(from_fill(FillsOnce), TRUE),
       fill_any(from_fill(FillsNothing), TRUE),
       fill_debug(Broken, FALSE),
       fill_debug(Point, TRUE) >>

\* the bodies of up to MaxSteps statements, by their statements' numbers
Bodies == UNION {[1..n -> 1..Len(Statements)] : n \in 0..MaxSteps}

\* the Fill whose body is the statements numbered by b
FillOf(b, ret) == FillBody([i \in 1..Len(b) |-> Statements[b[i]]], ret)

\* native scalars of every supported type
Natives ==
    << Native("u8", BitsOf(255, 8)), Native("u8", BitsOf(42, 8)),
       Native("u16", BitsOf(65535, 16)),
       Native("u32", Ones(32)),
       Native("u64", Ones(64)), Native("u64", BitsOf(300, 64)), Native("u64", <<1>> \o Zeros(63)),
       Native("u64", BitsOf(1, 11) \o Ones(53)),
       Native("usize", Ones(64)),
       Native("i8", IntBits(-1, 8)), Native("i8", IntBits(-128, 8)),
       Native("i16", IntBits(-300, 16)),
       Native("i32", IntBits(5, 32)), Native("i32", <<1>> \o Zeros(31)),
       Native("i64", IntBits(-1, 64)), Native("i64", <<1>> \o Zeros(63)), Native("i64", <<0>> \o Ones(63)),
       Native("i64", IntBits(-300, 64)),
       Native("isize", IntBits(-2, 64)),
       Native("f32", MkF32(0, 127, Zeros(23))), Native("f32", MkF32(0, 123, BitsOf(5033165, 23))),
       Native("f32", MkF32(1, 128, BitsOf(2097152, 23))), Native("f32", MkF32(0, 255, Zeros(23))),
       Native("f32", MkF32(0, 255, <<1>> \o Zeros(22))), Native("f32", MkF32(0, 0, BitsOf(1, 23))),
       Native("f64", MkF64(0, 1023, Hex(<<14, 6, 6, 6, 6, 6, 6, 6, 6, 6, 6, 6, 6>>))),
       Native("f64", MkF64(1, 1023, Hex(<<14, 6, 6, 6, 6, 6, 6, 6, 6, 6, 6, 6, 6>>))),
       Native("f64", MkF64(0, 1054, Hex(<<6, 5, 10, 0, 11, 12, 0, 0, 0, 0, 0, 0, 0>>))),
       Native("f64", MkF64(1, 1054, Hex(<<6, 5, 10, 0, 11, 12, 0, 0, 0, 0, 0, 0, 0>>))),
       Native("f64", MkF64(0, 1019, Hex(<<9, 9, 9, 9, 9, 9, 9, 9, 9, 9, 9, 9, 10>>))),
       Native("f64", MkF64(0, 2019, Hex(<<7, 14, 4, 3, 12, 8, 8, 0, 0, 7, 5, 9, 12>>))),
       Native("f64", MkF64(0, 1087, Zeros(52))), Native("f64", MkF64(1, 1086, Zeros(52))),
       Native("f64", MkF64(0, 1030, Hex(<<15, 15, 12, 12, 12, 12, 12, 12, 12, 12, 12, 12, 13>>))),
       Native("f64", MkF64(1, 1030, Hex(<<0, 2, 0, 0, 0, 0, 0, 0, 0, 0, 0, 0, 0>>))),
       Native("f64", MkF64(0, 1047, Hex(<<0, 0, 0, 0, 0, 1, 0, 0, 0, 0, 0, 0, 0>>))),
       Native("f64", MkF64(0, 0, Zeros(52))), Native("f64", MkF64(1, 0, Zeros(52))),
       Native("f64", MkF64(1, 1022, Zeros(52))),
       Native("f64", MkF64(0, 2047, Zeros(52))), Native("f64", MkF64(1, 2047, Zeros(52))),
       Native("f64", MkF64(0, 2047, <<1>> \o Zeros(51))),
       Native("bool", TRUE), Native("bool", FALSE),
       Native("char", "a"),
       Native("str", Str(1, utf("a string"))), Native("str", Str(3, utf(""))),
       Native("str", Str(4, utf("a string longer than sixteen bytes"))),
       Native("str", Str(5, utf("ééééééééé"))),
       Native("f32", MkF32(0, 255, BitsOf(1, 23))) >>

\* an Option<T>: T and the option
Option(of, v) == [of |-> of, v |-> v]

Options ==
    << Option("i32", None), Option("i32", Some(IntBits(5, 32))), Option("u64", Some(Ones(64))),
       Option("str", None), Option("str", Some(Str(1, utf("a string")))), Option("bool", Some(TRUE)),
       Option("f64", Some(MkF64(0, 1023, Hex(<<14, 6, 6, 6, 6, 6, 6, 6, 6, 6, 6, 6, 6>>)))) >>

\* what a Value is made from: the constructor and its argument
Input(ctor, x) == [ctor |-> ctor, x |-> x]

\* values of a caller's type, captured behind a trait object or with
\* their type's identity; a format_args! as a ToValue, and as the Primitive
\* that From<fmt::Arguments> makes of it under Value::from_primitive, the
\* one variant of Primitive that no conversion of a native type gives
Captures ==
    << Input("from_debug", Point), Input("from_debug", Broken), Input("from_debug", Quoted), Input("from_debug", Hyphenated),
       Input("from_debug", Lettered), Input("from_debug", Extended),
       Input("from_display", Point), Input("from_display", Broken), Input("from_display", Accented),
       Input("from_dyn_error", IoError), Input("from_dyn_error", Broken),
       Input("from_dyn_sval", SvalNumber), Input("from_dyn_sval", SvalText), Input("from_dyn_sval", SvalMap),
       Input("from_arguments", Arguments(Point)),
       Input("from_primitive", Native("Arguments", Arguments(Point))),
       Input("capture_debug", Point), Input("capture_debug", Broken),
       Input("capture_display", Point),
       Input("capture_error", IoError),
       Input("capture_sval", SvalNumber), Input("capture_sval", SvalText) >>

\* the types asked for in a downcast
DowncastTypes == {"Point", "io::Error", "SvalNumber", "SvalText", "u64", "Option<i32>"}

\* the Value an input constructs; ToValue for fmt::Arguments is
\* Value::from_debug(self)
Construct(in) ==
    CASE in.ctor = "from" -> to_value(in.x)
      [] in.ctor = "from_option" -> to_value_option(in.x)
      [] in.ctor = "from_debug" -> from_debug(in.x)
      [] in.ctor = "from_display" -> from_display(in.x)
      [] in.ctor = "from_dyn_error" -> from_dyn_error(in.x)
      [] in.ctor = "from_dyn_sval" -> from_dyn_sval(in.x)
      [] in.ctor = "from_arguments" -> from_debug(in.x)
      [] in.ctor = "from_primitive" -> from_primitive(Primitive_from(in.x))
      [] in.ctor = "from_fill" -> from_fill(in.x)
      [] in.ctor = "capture_debug" -> capture_debug(in.x)
      [] in.ctor = "capture_display" -> capture_display(in.x)
      [] in.ctor = "capture_error" -> capture_error(in.x)
      [] in.ctor = "capture_sval" -> capture_sval(in.x)

(***************************************************************************)
(* The global logger (src/src/lib.rs)                                      *)
(***************************************************************************)

UNINITIALIZED == 0

INITIALIZING == 1

INITIALIZED == 2

\* the threads of the program
NThreads == 2

\* the calls of the set and shutdown functions and of MaxLevelFilter::set
\* the threads make, all together; the log calls are not counted, a thread
\* may keep making them
MaxCalls == 3

Threads == 1..NThreads

\* static NopLogger, what LOGGER points to when no logger is installed
NopLogger == 0

\* enum LevelFilter as usize: Off = 0 .. Trace = 5
LevelFilters == 0..5

\* the levels the callers of the logger functions pass: Off, Info, Trace
Filters == {0, 3, 5}

\* a thread between two calls, or in its first: where it is, the function it
\* called, whether that call began after shutdown_logger_raw had returned
\* Ok, the LoggerGuard it holds, whether the call ran make_logger, whether it
\* ran a method of a logger, and what the call returned
Thread(pc, call, late) == [pc |-> pc, call |-> call, late |-> late, guard |-> None, made |-> FALSE, called |-> FALSE, ret |-> "-"]

\* the statics as the program starts, and its threads
Statics ==
    /\ LOGGER = NopLogger
    /\ State = UNINITIALIZED
    /\ REFCOUNT = 0
    /\ MAX_LOG_LEVEL_FILTER = 0
    /\ thread = [t \in Threads |-> Thread("idle", "-", FALSE)]
    /\ hist = [started |-> 0, made |-> 0, set_ok |-> 0, returned |-> None, kept |-> FALSE]

\* a thread begins a call
Begin(t, call) ==
    /\ thread[t].pc = "idle"
    /\ call \in {"__log", "__enabled"} \/ hist.started < MaxCalls

\* faulty variant: set_logger_raw going ahead whenever no logger is active
set_logger_raw_unless_active(prev) == prev # INITIALIZED

\* set_logger_raw: the test of its compare_and_swap's result
set_logger_raw_claimed(prev) == prev = UNINITIALIZED

\* faulty variant: shutdown_logger_raw not waiting for the log calls in flight
shutdown_drained_at_once(refcount) == TRUE

\* shutdown_logger_raw: the exit test of its loop on REFCOUNT
shutdown_drained(refcount) == ~(refcount # 0)

\* faulty variant: logger() answering whenever a logger was ever set
logger_ready_if_set(state) == state # UNINITIALIZED

\* logger(): the test on STATE that lets it hand out LOGGER
logger_ready(state) == ~(state # INITIALIZED)

\* set_logger_raw, and try_set_logger and set_logger through it:
\* STATE.compare_and_swap(UNINITIALIZED, INITIALIZING); on failure
\* Err(SetLoggerError), which set_logger turns into a panic
set_logger_raw(t, call) ==
    /\ Begin(t, call)
    /\ IF set_logger_raw_claimed(State) THEN
           /\ State' = INITIALIZING
           /\ thread' = [thread EXCEPT ![t] = Thread("make_logger", call, Len(hist.returned) > 0)]
       ELSE
           /\ State' = State
           /\ thread' = [thread EXCEPT ![t] = [Thread(IF call = "set_logger" THEN "panicked" ELSE "idle", call, Len(hist.returned) > 0)
                                               EXCEPT !.ret = IF call = "set_logger" THEN "panic" ELSE "Err"]]
    /\ hist' = [hist EXCEPT !.started = hist.started + 1]
    /\ UNCHANGED <<LOGGER, REFCOUNT, MAX_LOG_LEVEL_FILTER>>
    /\ UNCHANGED kvars

\* make_logger(MaxLevelFilter(())): the closure runs with the token.  The
\* closure of set_logger is `max.set(filter); logger`; a closure given to
\* try_set_logger or set_logger_raw sets the maximum level or not, and
\* drops the token or keeps it for later
make_logger(t) ==
    /\ thread[t].pc = "make_logger"
    /\ \E filter \in Filters, sets \in BOOLEAN, keeps \in BOOLEAN :
           /\ thread[t].call = "set_logger" => (sets /\ ~keeps)
           /\ ~sets => filter = 0
           /\ MAX_LOG_LEVEL_FILTER' = IF sets THEN filter ELSE MAX_LOG_LEVEL_FILTER
           /\ hist' = [hist EXCEPT !.made = hist.made + 1, !.kept = hist.kept \/ keeps]
    /\ thread' = [thread EXCEPT ![t].pc = "assign", ![t].made = TRUE]
    /\ UNCHANGED <<LOGGER, State, REFCOUNT>>
    /\ UNCHANGED kvars

\* LOGGER = <what the closure returned>
set_logger_assign(t) ==
    /\ thread[t].pc = "assign"
    /\ LOGGER' = t
    /\ thread' = [thread EXCEPT ![t].pc = "store"]
    /\ UNCHANGED <<State, REFCOUNT, MAX_LOG_LEVEL_FILTER, hist>>
    /\ UNCHANGED kvars

\* STATE.store(INITIALIZED); Ok(())
set_logger_store(t) ==
    /\ thread[t].pc = "store"
    /\ State' = INITIALIZED
    /\ thread' = [thread EXCEPT ![t].pc = "idle", ![t].ret = "Ok"]
    /\ hist' = [hist EXCEPT !.set_ok = hist.set_ok + 1]
    /\ UNCHANGED <<LOGGER, REFCOUNT, MAX_LOG_LEVEL_FILTER>>
    /\ UNCHANGED kvars

\* faulty variant: shutdown_logger_raw that touches the maximum level only
\* when a logger is installed
shutdown_logger_raw_if_installed(t) ==
    /\ Begin(t, "shutdown_logger_raw")
    /\ MAX_LOG_LEVEL_FILTER' = IF State = INITIALIZED THEN 0 ELSE MAX_LOG_LEVEL_FILTER
    /\ thread' = [thread EXCEPT ![t] = Thread("shutdown_cas", "shutdown_logger_raw", Len(hist.returned) > 0)]
    /\ hist' = [hist EXCEPT !.started = hist.started + 1]
    /\ UNCHANGED <<LOGGER, State, REFCOUNT>>
    /\ UNCHANGED kvars

\* shutdown_logger_raw: MAX_LOG_LEVEL_FILTER.store(0)
shutdown_logger_raw(t) ==
    /\ Begin(t, "shutdown_logger_raw")
    /\ MAX_LOG_LEVEL_FILTER' = 0
    /\ thread' = [thread EXCEPT ![t] = Thread("shutdown_cas", "shutdown_logger_raw", Len(hist.returned) > 0)]
    /\ hist' = [hist EXCEPT !.started = hist.started + 1]
    /\ UNCHANGED <<LOGGER, State, REFCOUNT>>
    /\ UNCHANGED kvars

\* STATE.compare_and_swap(INITIALIZED, INITIALIZING); on failure
\* Err(ShutdownLoggerError)
shutdown_cas(t) ==
    /\ thread[t].pc = "shutdown_cas"
    /\ IF State = INITIALIZED THEN
           /\ State' = INITIALIZING
           /\ thread' = [thread EXCEPT ![t].pc = "shutdown_wait"]
       ELSE
           /\ State' = State
           /\ thread' = [thread EXCEPT ![t].pc = "idle", ![t].ret = "Err"]
    /\ UNCHANGED <<LOGGER, REFCOUNT, MAX_LOG_LEVEL_FILTER, hist>>
    /\ UNCHANGED kvars

\* while REFCOUNT.load() != 0 {}: one load that finds the count at zero
shutdown_wait(t) ==
    /\ thread[t].pc = "shutdown_wait"
    /\ shutdown_drained(REFCOUNT)
    /\ thread' = [thread EXCEPT ![t].pc = "shutdown_take"]
    /\ UNCHANGED <<LOGGER, State, REFCOUNT, MAX_LOG_LEVEL_FILTER, hist>>
    /\ UNCHANGED kvars

\* let logger = LOGGER; LOGGER = &NopLogger; Ok(logger)
shutdown_take(t) ==
    /\ thread[t].pc = "shutdown_take"
    /\ LOGGER' = NopLogger
    /\ thread' = [thread EXCEPT ![t].pc = "idle", ![t].ret = "Ok"]
    /\ hist' = [hist EXCEPT !.returned = Some(LOGGER)]
    /\ UNCHANGED <<State, REFCOUNT, MAX_LOG_LEVEL_FILTER>>
    /\ UNCHANGED kvars

\* __log or __enabled calling logger(): REFCOUNT.fetch_add(1)
logger(t, call) ==
    /\ Begin(t, call)
    /\ REFCOUNT' = REFCOUNT + 1
    /\ thread' = [thread EXCEPT ![t] = Thread("logger_load", call, Len(hist.returned) > 0)]
    /\ hist' = hist
    /\ UNCHANGED <<LOGGER, State, MAX_LOG_LEVEL_FILTER>>
    /\ UNCHANGED kvars

\* logger(): STATE.load() and the branch on it
logger_load(t) ==
    /\ thread[t].pc = "logger_load"
    /\ thread' = [thread EXCEPT ![t].pc = IF logger_ready(State) THEN "logger_some" ELSE "logger_none"]
    /\ UNCHANGED <<LOGGER, State, REFCOUNT, MAX_LOG_LEVEL_FILTER, hist>>
    /\ UNCHANGED kvars

\* logger(): REFCOUNT.fetch_sub(1); None, on which __log returns and
\* __enabled returns false
logger_none(t) ==
    /\ thread[t].pc = "logger_none"
    /\ REFCOUNT' = REFCOUNT - 1
    /\ thread' = [thread EXCEPT ![t].pc = "idle", ![t].ret = IF thread[t].call = "__enabled" THEN "false" ELSE "unit"]
    /\ UNCHANGED <<LOGGER, State, MAX_LOG_LEVEL_FILTER, hist>>
    /\ UNCHANGED kvars

\* logger(): Some(LoggerGuard(&*LOGGER))
logger_some(t) ==
    /\ thread[t].pc = "logger_some"
    /\ thread' = [thread EXCEPT ![t].pc = "method", ![t].guard = Some(LOGGER)]
    /\ UNCHANGED <<LOGGER, State, REFCOUNT, MAX_LOG_LEVEL_FILTER, hist>>
    /\ UNCHANGED kvars

\* logger.log(&record) or logger.enabled(&metadata) runs on the guard's
\* logger; enabled answers as the logger pleases
Log_method(t) ==
    /\ thread[t].pc = "method"
    /\ \E answer \in {"true", "false"} :
           thread' = [thread EXCEPT ![t].pc = "drop", ![t].called = TRUE,
                                    ![t].ret = IF thread[t].call = "__enabled" THEN answer ELSE "unit"]
    /\ UNCHANGED <<LOGGER, State, REFCOUNT, MAX_LOG_LEVEL_FILTER, hist>>
    /\ UNCHANGED kvars

\* Drop for LoggerGuard: REFCOUNT.fetch_sub(1)
LoggerGuard_drop(t) ==
    /\ thread[t].pc = "drop"
    /\ REFCOUNT' = REFCOUNT - 1
    /\ thread' = [thread EXCEPT ![t].pc = "idle", ![t].guard = None]
    /\ UNCHANGED <<LOGGER, State, MAX_LOG_LEVEL_FILTER, hist>>
    /\ UNCHANGED kvars

(***************************************************************************)
(* The state machine: one Value, the operations of its public surface run  *)
(* on it one after another, and inside a visit of a Fill value the         *)
(* statements of the Fill body one at a time.                              *)
(***************************************************************************)

\* an operation of Value and where it stands
Op(kind, target, phase, visited) == [kind |-> kind, target |-> target, phase |-> phase, visited |-> visited]

\* what an operation gave back: the result of the visit it made ("-" when it
\* made none, "Panic" when Slot::fill panicked, "Overflow" when the test
\* visitor's buffer did), whether it panicked, and its return value
Result(visit, panicked, ret) == [visit |-> visit, panicked |-> panicked, ret |-> ret]

\* the visitor an operation hands to Value::visit
VisitorOf(kind, target) ==
    CASE kind = "to_token" -> "Test"
      [] kind = "to" -> "Cast"
      [] kind = "get" -> "Coerce"
      [] kind = "fmt" -> target

\* what an operation makes of the visit: to_* and get_* drop the result and
\* read the visitor, fmt maps the error, to_token unwraps both
Outcome(kind, target, vis, res) ==
    CASE kind = "to" -> Result(res, FALSE, to_(target, vis.cast))
      [] kind = "get" -> Result(res, FALSE, get_(target, vis.cast))
      [] kind = "fmt" -> Result(res, FALSE, [res |-> res, out |-> vis.out])
      [] kind = "to_token" -> IF res = "Overflow" THEN Result("Overflow", TRUE, None)
                              ELSE Result(res, res = "Err" \/ Len(vis.token) = 0, vis.token)

\* a Value made by one of its constructors from an argument of a type the
\* constructor takes: an Option is a ToValue, a Debug and an sval::Value,
\* and no Display
Init ==
    /\ \/ \E i \in 1..Len(Natives) : input = Input("from", Natives[i])
       \/ \E i \in 1..Len(Options) : input = Input("from_option", Options[i])
       \/ \E i \in 1..Len(Captures) : input = Captures[i]
       \/ \E b \in Bodies, ret \in {"Ok", "Err"} : input = Input("from_fill", FillOf(b, ret))
       \/ \E c \in {"capture_debug", "capture_display", "capture_sval"}, i \in 1..Len(Natives) :
              /\ \A j \in 1..(i - 1) : Natives[j].ty # Natives[i].ty
              /\ input = Input(c, Natives[i])
       \/ \E c \in {"capture_debug", "capture_sval"}, i \in 1..Len(Options) : input = Input(c, Options[i])
    /\ value = Construct(input)
    /\ stack = <<>>
    /\ visitor = NewVisitor("None")
    /\ calls = <<>>
    /\ op = Op("new", "-", "idle", FALSE)
    /\ result = Result("-", FALSE, None)
    /\ first = None
    /\ nops = 0
    /\ Statics

\* the visit has returned res to the operation
Finish(kind, target, vis, res, cs) ==
    /\ result' = Outcome(kind, target, vis, res)
    /\ op' = Op(kind, target, IF Outcome(kind, target, vis, res).panicked THEN "panicked" ELSE "done", TRUE)
    /\ first' = IF Len(first) = 0 THEN Some(cs) ELSE first

\* an operation starts: Inner::cast answers a Primitive without a visit;
\* Inner::visit makes the one call of any other variant but Fill, and for a
\* Fill creates the Slot and enters Fill::fill
Start(kind, target) ==
    /\ op.phase # "running"
    /\ nops < MaxOps
    /\ nops' = nops + 1
    /\ IF kind = "to" /\ value.tag = "Primitive" THEN
           /\ op' = Op(kind, target, "done", FALSE)
           /\ result' = Result("-", FALSE, to_(target, Cast("Primitive", value.value)))
           /\ visitor' = NewVisitor("None")
           /\ calls' = <<>>
           /\ stack' = <<>>
           /\ UNCHANGED first
       ELSE IF value.tag # "Fill" THEN
           /\ visitor' = Visitor_call(NewVisitor(VisitorOf(kind, target)), Inner_visit(value)).vis
           /\ calls' = <<Inner_visit(value)>>
           /\ stack' = <<>>
           /\ Finish(kind, target, visitor', Visitor_call(NewVisitor(VisitorOf(kind, target)), Inner_visit(value)).res, calls')
       ELSE
           /\ op' = Op(kind, target, "running", TRUE)
           /\ result' = Result("-", FALSE, None)
           /\ visitor' = NewVisitor(VisitorOf(kind, target))
           /\ calls' = <<>>
           /\ stack' = <<Frame(value.value, visitor')>>
           /\ UNCHANGED first
    /\ UNCHANGED <<input, value>>
    /\ UNCHANGED lvars

\* Value::to_token (the test visitor)
to_token == Start("to_token", "token")

\* Value::to_usize .. Value::to_str
Value_to(target) == Start("to", target)

\* Value::get_str .. Value::get_string
Value_get(target) == Start("get", target)

\* impl fmt::Debug / fmt::Display for Value
Value_fmt(style) == Start("fmt", style)

\* Value::downcast_ref::<T>() and Value::is::<T>(): no visit, no visitor
Downcast(kind, T) ==
    /\ op.phase # "running"
    /\ nops < MaxOps
    /\ nops' = nops + 1
    /\ op' = Op(kind, T, "done", FALSE)
    /\ result' = Result("-", FALSE, IF kind = "is" THEN is(value, T) ELSE downcast_ref(value, T))
    /\ visitor' = NewVisitor("None")
    /\ calls' = <<>>
    /\ stack' = <<>>
    /\ UNCHANGED <<input, value, first>>
    /\ UNCHANGED lvars

\* the Fill body at the top of the stack makes its next fill_* call:
\* Slot::fill asserts the slot is unfilled, marks it filled and runs the
\* closure, which visits the value given on the slot's visitor
Slot_fill ==
    /\ op.phase = "running"
    /\ stack # <<>>
    /\ stack[Len(stack)].early = "-"
    /\ stack[Len(stack)].pos <= Len(stack[Len(stack)].fill.steps)
    /\ LET top == stack[Len(stack)]
           step == top.fill.steps[top.pos]
           marked == [top EXCEPT !.slot = Slot_mark(top.slot)]
       IN  IF Slot_is_filled(top.slot) THEN
               /\ op' = [op EXCEPT !.phase = "panicked"]
               /\ result' = Result("Panic", TRUE, None)
               /\ first' = IF Len(first) = 0 THEN Some(calls) ELSE first
               /\ UNCHANGED <<stack, visitor, calls>>
           ELSE IF step.value.tag = "Fill" THEN
               /\ stack' = [stack EXCEPT ![Len(stack)] = marked] \o <<Frame(step.value.value, visitor)>>
               /\ UNCHANGED <<visitor, calls, op, result, first>>
           ELSE IF Visitor_call(visitor, Inner_visit(step.value)).res = "Overflow" THEN
               /\ calls' = Append(calls, Inner_visit(step.value))
               /\ op' = [op EXCEPT !.phase = "panicked"]
               /\ result' = Result("Overflow", TRUE, None)
               /\ first' = IF Len(first) = 0 THEN Some(calls') ELSE first
               /\ stack' = [stack EXCEPT ![Len(stack)] = marked]
               /\ UNCHANGED visitor
           ELSE
               /\ visitor' = Visitor_call(visitor, Inner_visit(step.value)).vis
               /\ calls' = Append(calls, Inner_visit(step.value))
               /\ stack' = [stack EXCEPT ![Len(stack)] = AfterFill(marked, Visitor_call(visitor, Inner_visit(step.value)).res)]
               /\ UNCHANGED <<op, result, first>>
    /\ UNCHANGED <<input, value, nops>>
    /\ UNCHANGED lvars

\* the Fill body at the top of the stack returns, to the fill_any that
\* visited it or to the operation
Fill_return ==
    /\ op.phase = "running"
    /\ stack # <<>>
    /\ stack[Len(stack)].early # "-" \/ stack[Len(stack)].pos > Len(stack[Len(stack)].fill.steps)
    /\ LET top == stack[Len(stack)]
           r == IF top.early # "-" THEN top.early ELSE top.fill.ret
           rest == SubSeq(stack, 1, Len(stack) - 1)
       IN  IF Len(stack) = 1 THEN
               /\ stack' = <<>>
               /\ Finish(op.kind, op.target, visitor, r, calls)
               /\ UNCHANGED <<visitor, calls>>
           ELSE
               /\ stack' = [rest EXCEPT ![Len(rest)] = AfterFill(rest[Len(rest)], r)]
               /\ UNCHANGED <<visitor, calls, op, result, first>>
    /\ UNCHANGED <<input, value, nops>>
    /\ UNCHANGED lvars

Next ==
    \/ to_token
    \/ \E target \in CastTargets : Value_to(target)
    \/ \E target \in CoerceTargets : Value_get(target)
    \/ \E style \in {"Debug", "Display"} : Value_fmt(style)
    \/ \E T \in DowncastTypes, kind \in {"downcast_ref", "is"} : Downcast(kind, T)
    \/ Slot_fill
    \/ Fill_return

Spec == Init /\ [][Next]_vars

\* MaxLevelFilter::set(level), by a caller that kept the token its
\* make_logger closure was given, between two calls or from a method of
\* its logger
MaxLevelFilter_set(level) ==
    /\ hist.kept
    /\ hist.started < MaxCalls
    /\ \E t \in Threads : thread[t].pc \in {"idle", "method"}
    /\ MAX_LOG_LEVEL_FILTER' = level
    /\ hist' = [hist EXCEPT !.started = hist.started + 1]
    /\ op' = Op("set", "-", "done", FALSE)
    /\ result' = Result("-", FALSE, None)
    /\ calls' = <<>>
    /\ UNCHANGED <<LOGGER, State, REFCOUNT, thread>>
    /\ UNCHANGED <<input, value, stack, visitor, first, nops>>

\* a program that has made no Value
LoggerInit ==
    /\ Statics
    /\ input = Input("from", Natives[1])
    /\ value = Construct(input)
    /\ stack = <<>>
    /\ visitor = NewVisitor("None")
    /\ calls = <<>>
    /\ op = Op("new", "-", "idle", FALSE)
    /\ result = Result("-", FALSE, None)
    /\ first = None
    /\ nops = 0

LoggerNext ==
    \/ \E level \in Filters : MaxLevelFilter_set(level)
    \/ \E t \in Threads :
        \/ \E call \in {"set_logger_raw", "try_set_logger", "set_logger"} : set_logger_raw(t, call)
        \/ make_logger(t)
        \/ set_logger_assign(t)
        \/ set_logger_store(t)
        \/ shutdown_logger_raw(t)
        \/ shutdown_cas(t)
        \/ shutdown_wait(t)
        \/ shutdown_take(t)
        \/ \E call \in {"__log", "__enabled"} : logger(t, call)
        \/ logger_load(t)
        \/ logger_none(t)
        \/ logger_some(t)
        \/ Log_method(t)
        \/ LoggerGuard_drop(t)

LoggerSpec == LoggerInit /\ [][LoggerNext]_vars

\* what the scheduler and the callers give: a thread inside a call takes its
\* next step when it can take it for good (a thread in a logger method
\* returns and drops its LoggerGuard, a started call runs on), while no
\* thread has to begin a call.  The loop of shutdown_logger_raw leaves only
\* on a load of REFCOUNT that reads zero.
LoggerFairness ==
    \A t \in Threads :
        WF_vars(\/ make_logger(t) \/ set_logger_assign(t) \/ set_logger_store(t)
                \/ shutdown_cas(t) \/ shutdown_wait(t) \/ shutdown_take(t)
                \/ logger_load(t) \/ logger_none(t) \/ logger_some(t)
                \/ Log_method(t) \/ LoggerGuard_drop(t))

LiveLoggerSpec == LoggerSpec /\ LoggerFairness

(***************************************************************************)
(* Sources of key-value pairs (src/src/kv/source.rs).  A source is a pair, *)
(* a slice of sources, an Option of a source, or a caller's type that      *)
(* implements visit alone and takes the trait's default get and count.     *)
(* SourceSpec applies count, get and visit to one source; it keeps the     *)
(* source in `input`, the pairs the last visit delivered in `calls`, the   *)
(* visitor in `visitor`, and the operation and what it gave in `op` and    *)
(* `result`.                                                               *)
(***************************************************************************)

\* the longest slice
MaxLen == 2

\* a Source: "Pair" with <<key, value>>, "Slice" with its elements, "Option"
\* with none or one source, "Custom" with the pairs its visit walks
Source(kind, elems) == [src |-> kind, elems |-> elems]

Keys == {"a", "b"}

\* the pairs the sources are made of
Pairs == {Source("Pair", <<k, v>>) : k \in Keys, v \in 1..2}

\* None::<(K, V)> and Some((k, v))
OptionalPairs == {Source("Option", <<>>)} \cup {Source("Option", <<p>>) : p \in Pairs}

\* the sequences of up to MaxLen elements of S
UpTo(S) == UNION {[1..n -> S] : n \in 0..MaxLen}

\* a visitor of pairs: Get { key, found }, Count(n), or a caller's visitor
\* that keeps what it is given and fails on its fail_at-th pair (never when
\* fail_at is 0)
PairVisitor(kind, key, fail_at) == [kind |-> kind, key |-> key, found |-> None, n |-> 0, fail_at |-> fail_at, seen |-> <<>>]

\* Visitor::visit_pair of the three visitors
visit_pair(vis, k, v) ==
    CASE vis.kind = "Get" -> Handled([vis EXCEPT !.found = IF vis.key = k THEN Some(v) ELSE vis.found], "Ok", "visit_pair")
      [] vis.kind = "Count" -> Handled([vis EXCEPT !.n = vis.n + 1], "Ok", "visit_pair")
      [] vis.kind = "Collect" ->
            Handled([vis EXCEPT !.seen = Append(vis.seen, <<k, v>>)],
                    IF Len(vis.seen) + 1 = vis.fail_at THEN "Err" ELSE "Ok", "visit_pair")

\* Source::visit: the pair hands itself to the visitor; the slice and the
\* caller's source visit their elements in order, `?` ending the loop on the
\* first error; the Option visits what it holds
RECURSIVE Source_visit(_, _)
Source_visit(s, vis) ==
    CASE s.src = "Pair" -> visit_pair(vis, s.elems[1], s.elems[2])
      [] s.src \in {"Slice", "Custom", "Option"} ->
            IF Len(s.elems) = 0 THEN Handled(vis, "Ok", "visit")
            ELSE IF Source_visit(s.elems[1], vis).res = "Err" THEN Source_visit(s.elems[1], vis)
            ELSE Source_visit(Source(s.src, Tail(s.elems)), Source_visit(s.elems[1], vis).vis)

\* get_default: visit with Get and take what it found
get_default(s, key) == Source_visit(s, PairVisitor("Get", key, 0)).vis.found

\* count_default: visit with Count and take its counter
count_default(s) == Source_visit(s, PairVisitor("Count", "-", 0)).vis.n

\* Source::get: the pair compares its key; the slice returns the first Some
\* its elements give; the Option asks what it holds; the caller's source
\* takes the default
RECURSIVE Source_get(_, _)
Source_get(s, key) ==
    CASE s.src = "Pair" -> IF s.elems[1] = key THEN Some(s.elems[2]) ELSE None
      [] s.src = "Slice" ->
            IF Len(s.elems) = 0 THEN None
            ELSE IF Len(Source_get(s.elems[1], key)) > 0 THEN Source_get(s.elems[1], key)
            ELSE Source_get(Source("Slice", Tail(s.elems)), key)
      [] s.src = "Option" -> IF Len(s.elems) = 0 THEN None ELSE Source_get(s.elems[1], key)
      [] s.src = "Custom" -> get_default(s, key)

\* faulty variant: a slice that counts its elements
RECURSIVE Source_count_len(_)
Source_count_len(s) ==
    CASE s.src = "Pair" -> 1
      [] s.src = "Slice" -> Len(s.elems)
      [] s.src = "Option" -> IF Len(s.elems) = 0 THEN 0 ELSE Source_count_len(s.elems[1])
      [] s.src = "Custom" -> count_default(s)

\* Source::count: 1 for the pair, the sum of its elements' counts for the
\* slice, 0 or the held source's count for the Option, the default for the
\* caller's source
RECURSIVE Source_count(_)
Source_count(s) ==
    CASE s.src = "Pair" -> 1
      [] s.src = "Slice" -> IF Len(s.elems) = 0 THEN 0 ELSE Source_count(s.elems[1]) + Source_count(Source("Slice", Tail(s.elems)))
      [] s.src = "Option" -> IF Len(s.elems) = 0 THEN 0 ELSE Source_count(s.elems[1])
      [] s.src = "Custom" -> count_default(s)

\* a source as the caller built it
SourceInit ==
    /\ \/ \E p \in Pairs : input = p
       \/ \E o \in OptionalPairs : input = o
       \/ \E ps \in UpTo(Pairs) : input = Source("Slice", ps)
       \/ \E os \in UpTo(OptionalPairs) : input = Source("Slice", os)
       \/ \E ps \in UpTo(Pairs) : input = Source("Custom", ps)
    /\ value = Construct(Input("from", Natives[1]))
    /\ stack = <<>>
    /\ visitor = PairVisitor("Collect", "-", 0)
    /\ calls = <<>>
    /\ op = Op("new", "-", "idle", FALSE)
    /\ result = Result("-", FALSE, None)
    /\ first = None
    /\ nops = 0
    /\ Statics

\* source.count()
count ==
    /\ op' = Op("count", "-", "done", input.src = "Custom")
    /\ result' = Result("-", FALSE, Source_count(input))
    /\ UNCHANGED <<input, value, stack, visitor, calls, first, nops>>
    /\ UNCHANGED lvars

\* source.get(key)
get(key) ==
    /\ op' = Op("get", key, "done", input.src = "Custom")
    /\ result' = Result("-", FALSE, Source_get(input, key))
    /\ UNCHANGED <<input, value, stack, visitor, calls, first, nops>>
    /\ UNCHANGED lvars

\* source.visit(&mut visitor) with a caller's visitor
visit(fail_at) ==
    /\ op' = Op("visit", fail_at, "done", TRUE)
    /\ visitor' = Source_visit(input, PairVisitor("Collect", "-", fail_at)).vis
    /\ calls' = visitor'.seen
    /\ result' = Result(Source_visit(input, PairVisitor("Collect", "-", fail_at)).res, FALSE, None)
    /\ UNCHANGED <<input, value, stack, first, nops>>
    /\ UNCHANGED lvars

SourceNext ==
    \/ count
    \/ \E key \in Keys \cup {"c"} : get(key)
    \/ \E fail_at \in 0..MaxLen : visit(fail_at)

SourceSpec == SourceInit /\ [][SourceNext]_vars

(***************************************************************************)
(* Level filtering: the log! macro's test against the global maximum level *)
(* (src/src/macros.rs, src/src/lib.rs) and the env logger's directives     *)
(* (src/env/src/lib.rs).  FilterSpec starts with a new Builder, owned by   *)
(* the first thread, with a logger installed or none.  It keeps the        *)
(* Builder's directives in `input` and its filter in `stack`, the Logger   *)
(* that Builder::build returned in `value`, the directives as they were    *)
(* given in `first`, the Logger a call of init or try_init has built in    *)
(* `visitor`, and the last call and its answer in `op` and `result`.  The  *)
(* first thread makes the calls on the Builder and on the Logger, the      *)
(* other threads call the macro; a call that touches the statics takes one *)
(* step for each access.                                                   *)
(***************************************************************************)

\* the directives given to one Builder
MaxDirectives == 2

\* __static_max_level() with no max_level_* feature: LevelFilter::Trace
STATIC_MAX_LEVEL == 5

\* struct Directive: name is an Option<String>
Directive(name, level) == [name |-> name, level |-> level]

\* str::starts_with, on the bytes
starts_with(target, name) ==
    /\ Len(as_bytes(name)) <= Len(as_bytes(target))
    /\ SubSeq(as_bytes(target), 1, Len(as_bytes(name))) = as_bytes(name)

\* the sort key of Builder::build: name.as_ref().map(|a| a.len()).unwrap_or(0),
\* the length in bytes
name_len(d) == IF Len(d.name) = 0 THEN 0 ELSE Len(as_bytes(d.name[1]))

\* Vec::sort_by, a stable sort, on the key of Builder::build: each element
\* goes behind the elements before it that are not longer
RECURSIVE sort_by(_)
sort_by(ds) ==
    IF Len(ds) <= 1 THEN ds
    ELSE LET sorted == sort_by(SubSeq(ds, 1, Len(ds) - 1))
             k == Cardinality({i \in 1..Len(sorted) : name_len(sorted[i]) <= name_len(ds[Len(ds)])})
         IN  SubSeq(sorted, 1, k) \o <<ds[Len(ds)]>> \o SubSeq(sorted, k + 1, Len(sorted))

\* faulty variant: Logger::enabled searching from the front
RECURSIVE Logger_enabled_forward(_, _, _)
Logger_enabled_forward(directives, level, target) ==
    IF Len(directives) = 0 THEN FALSE
    ELSE IF Len(Head(directives).name) = 1 /\ ~starts_with(target, Head(directives).name[1])
         THEN Logger_enabled_forward(Tail(directives), level, target)
    ELSE level <= Head(directives).level

\* Logger::enabled: the directives from the last to the first, the first
\* whose name is None or a prefix of the target decides
RECURSIVE Logger_enabled(_, _, _)
Logger_enabled(directives, level, target) ==
    IF Len(directives) = 0 THEN FALSE
    ELSE IF Len(directives[Len(directives)].name) = 1 /\ ~starts_with(target, directives[Len(directives)].name[1])
         THEN Logger_enabled(SubSeq(directives, 1, Len(directives) - 1), level, target)
    ELSE level <= directives[Len(directives)].level

\* faulty variant: a macro that lets through only the levels below the maximum
log_enabled_below(lvl, max_level) == lvl <= STATIC_MAX_LEVEL /\ lvl < max_level

\* the test of log!: lvl <= STATIC_MAX_LEVEL && lvl <= max_level()
log_enabled(lvl, max_level) == lvl <= STATIC_MAX_LEVEL /\ lvl <= max_level

\* the calls made on one Builder
MaxBuilderCalls == 3

\* to_ascii_uppercase(c: u8) inside eq_ignore_ascii_case
to_ascii_uppercase(c) == IF c >= 97 /\ c <= 122 THEN c - 97 + 65 ELSE c

\* eq_ignore_ascii_case(a, b): the lengths in bytes, then byte by byte
eq_ignore_ascii_case(a, b) ==
    /\ Len(as_bytes(a)) = Len(as_bytes(b))
    /\ \A i \in 1..Len(as_bytes(a)) : to_ascii_uppercase(as_bytes(a)[i]) = to_ascii_uppercase(as_bytes(b)[i])

\* static LOG_LEVEL_NAMES
LOG_LEVEL_NAMES == <<utf("OFF"), utf("ERROR"), utf("WARN"), utf("INFO"), utf("DEBUG"), utf("TRACE")>>

\* impl FromStr for LevelFilter: the position of the name, whatever its
\* case, as a LevelFilter; None for Err(ParseLevelError)
LevelFilter_from_str(level) ==
    IF \E p \in 1..6 : eq_ignore_ascii_case(LOG_LEVEL_NAMES[p], level)
    THEN Some((CHOOSE p \in 1..6 : eq_ignore_ascii_case(LOG_LEVEL_NAMES[p], level)) - 1)
    ELSE None

\* str::split(sep) for a char sep: the pieces between the separators
RECURSIVE split(_, _)
split(s, sep) ==
    IF \A i \in 1..Len(s) : s[i] # sep THEN <<s>>
    ELSE LET i == CHOOSE k \in 1..Len(s) : s[k] = sep /\ \A m \in 1..(k - 1) : s[m] # sep
         IN  <<SubSeq(s, 1, i - 1)>> \o split(SubSeq(s, i + 1, Len(s)), sep)

\* str::trim: without the whitespace at both ends
RECURSIVE trim(_)
trim(s) ==
    IF Len(s) = 0 THEN s
    ELSE IF is_whitespace(s[1]) THEN trim(Tail(s))
    ELSE IF is_whitespace(s[Len(s)]) THEN trim(SubSeq(s, 1, Len(s) - 1))
    ELSE s

\* parse_spec, one item between commas: the directive it gives, if any
parse_directive(s) ==
    LET parts == split(s, ord("="))
        part1 == trim(parts[2])
    IN  IF Len(as_bytes(s)) = 0 THEN None
        ELSE IF Len(parts) = 1 THEN
            (IF Len(LevelFilter_from_str(parts[1])) = 1 THEN Some(Directive(None, LevelFilter_from_str(parts[1])[1]))
             ELSE Some(Directive(Some(parts[1]), 5)))
        ELSE IF Len(parts) = 2 THEN
            (IF Len(part1) = 0 THEN Some(Directive(Some(parts[1]), 5))
             ELSE IF Len(LevelFilter_from_str(part1)) = 1 THEN Some(Directive(Some(parts[1]), LevelFilter_from_str(part1)[1]))
             ELSE None)
        ELSE None

\* parse_spec, the loop over the items between commas
RECURSIVE parse_directives(_)
parse_directives(items) ==
    IF Len(items) = 0 THEN <<>>
    ELSE parse_directive(items[1]) \o parse_directives(Tail(items))

\* parse_spec(spec): the directives and the text of the filter after the
\* slash; nothing at all when there are two slashes or more
parse_spec(spec) ==
    LET parts == split(spec, ord("/"))
    IN  IF Len(parts) > 2 THEN [dirs |-> <<>>, filter |-> None]
        ELSE [dirs |-> parse_directives(split(parts[1], ord(","))),
              filter |-> IF Len(parts) = 2 THEN Some(parts[2]) ELSE None]

\* logging specifications, as RUST_LOG or Builder::parse get them
Specs ==
    { utf("a=debug"), utf("ab,a=ERROR"), utf("warn"), utf(",a=\t off\n/f"),
      utf("a=,b=x"), utf("a=info=b,b"), utf("a/f/g") }

\* the module and the level of a Builder::filter call
Directives ==
    { Directive(None, 1), Directive(Some(utf("")), 4), Directive(Some(utf("a")), 4),
      Directive(Some(utf("é")), 4), Directive(Some(utf("éa")), 1) }

\* the targets asked of a Logger
Targets == {utf("a"), utf("éa"), utf("b")}

\* Logger::filter: the highest level of the directives
Logger_filter(directives) ==
    IF Len(directives) = 0 THEN 0
    ELSE CHOOSE l \in LevelFilters :
             /\ \E i \in 1..Len(directives) : directives[i].level = l
             /\ \A i \in 1..Len(directives) : directives[i].level <= l

\* the directives of the Logger that Builder::build makes: the default
\* directive when none was given, those given sorted by the length of their
\* names otherwise
built(directives) == IF Len(directives) = 0 THEN <<Directive(None, 1)>> ELSE sort_by(directives)

\* Builder::new() holds no directive and no filter; either no logger is
\* installed, or one was installed by a caller that kept the MaxLevelFilter
\* and nothing has set the maximum level
FilterInit ==
    /\ \/ /\ LOGGER = 1
          /\ State = INITIALIZED
          /\ hist = [started |-> 1, made |-> 1, set_ok |-> 1, returned |-> None, kept |-> TRUE]
       \/ /\ LOGGER = NopLogger
          /\ State = UNINITIALIZED
          /\ hist = [started |-> 0, made |-> 0, set_ok |-> 0, returned |-> None, kept |-> FALSE]
    /\ REFCOUNT = 0
    /\ MAX_LOG_LEVEL_FILTER = 0
    /\ thread = [t \in Threads |-> Thread("idle", "-", FALSE)]
    /\ input = <<>>
    /\ value = None
    /\ stack = None
    /\ visitor = None
    /\ calls = <<>>
    /\ op = Op("new", "-", "idle", FALSE)
    /\ result = Result("-", FALSE, None)
    /\ first = None
    /\ nops = 0

\* log!(lvl, ..), the test: lvl <= STATIC_MAX_LEVEL && lvl <= max_level(),
\* a load of MAX_LOG_LEVEL_FILTER; the macro goes on to __log when it holds
\* and has done when it does not
log(t, lvl) ==
    /\ thread[t].pc = "idle"
    /\ thread' = IF log_enabled(lvl, MAX_LOG_LEVEL_FILTER)
                 THEN [thread EXCEPT ![t] = Thread("__log", "__log", FALSE)]
                 ELSE thread
    /\ op' = Op("log", lvl, IF log_enabled(lvl, MAX_LOG_LEVEL_FILTER) THEN "running" ELSE "done", FALSE)
    /\ result' = Result("-", FALSE, None)
    /\ calls' = <<>>
    /\ UNCHANGED <<LOGGER, State, REFCOUNT, MAX_LOG_LEVEL_FILTER, hist>>
    /\ UNCHANGED <<input, value, stack, visitor, first, nops>>

\* __log, entered from the macro, calling logger(): REFCOUNT.fetch_add(1)
log_logger(t) ==
    /\ thread[t].pc = "__log"
    /\ REFCOUNT' = REFCOUNT + 1
    /\ thread' = [thread EXCEPT ![t].pc = "logger_load"]
    /\ UNCHANGED <<LOGGER, State, MAX_LOG_LEVEL_FILTER, hist>>
    /\ UNCHANGED kvars

\* Builder::filter(module, level): push a Directive
Builder_filter(module, level) ==
    /\ thread[1].pc = "idle"
    /\ nops < MaxBuilderCalls
    /\ Len(input) < MaxDirectives
    /\ nops' = nops + 1
    /\ input' = Append(input, Directive(module, level))
    /\ op' = Op("filter", level, "done", FALSE)
    /\ result' = Result("-", FALSE, None)
    /\ calls' = <<>>
    /\ UNCHANGED lvars
    /\ UNCHANGED <<value, stack, visitor, first>>

\* Builder::parse(filters): the filter of the specification replaces the
\* Builder's, its directives are pushed behind those already there
Builder_parse(filters) ==
    /\ thread[1].pc = "idle"
    /\ nops < MaxBuilderCalls
    /\ Len(input) + Len(parse_spec(filters).dirs) <= MaxDirectives
    /\ nops' = nops + 1
    /\ stack' = parse_spec(filters).filter
    /\ input' = input \o parse_spec(filters).dirs
    /\ op' = Op("parse", filters, "done", FALSE)
    /\ result' = Result("-", FALSE, None)
    /\ calls' = <<>>
    /\ UNCHANGED lvars
    /\ UNCHANGED <<value, visitor, first>>

\* Builder::build: the Logger takes the directives and the filter, and the
\* Builder is left without them, ready to be used again.  `value` keeps
\* the directives of the Logger returned, `first` those the Builder held
Builder_build ==
    /\ thread[1].pc = "idle"
    /\ nops < MaxBuilderCalls
    /\ nops' = nops + 1
    /\ value' = Some(built(input))
    /\ first' = Some(input)
    /\ input' = <<>>
    /\ stack' = None
    /\ op' = Op("build", "-", "done", FALSE)
    /\ result' = Result("-", FALSE, None)
    /\ calls' = <<>>
    /\ UNCHANGED lvars
    /\ UNCHANGED visitor

\* Builder::try_init, up to the compare_and_swap of set_logger_raw, which
\* log::try_set_logger runs with the closure: when a logger was set before,
\* Err(SetLoggerError), the closure never runs and the Builder keeps what
\* it holds
Builder_try_init ==
    /\ thread[1].pc = "idle"
    /\ nops < MaxBuilderCalls
    /\ nops' = nops + 1
    /\ IF set_logger_raw_claimed(State) THEN
           /\ State' = INITIALIZING
           /\ thread' = [thread EXCEPT ![1] = Thread("make_logger", "try_init", FALSE)]
           /\ op' = Op("try_init", "-", "running", FALSE)
           /\ result' = Result("-", FALSE, None)
       ELSE
           /\ State' = State
           /\ thread' = [thread EXCEPT ![1] = [Thread("idle", "try_init", FALSE) EXCEPT !.ret = "Err"]]
           /\ op' = Op("try_init", "-", "done", FALSE)
           /\ result' = Result("Err", FALSE, None)
    /\ hist' = [hist EXCEPT !.started = hist.started + 1]
    /\ calls' = <<>>
    /\ UNCHANGED <<LOGGER, REFCOUNT, MAX_LOG_LEVEL_FILTER>>
    /\ UNCHANGED <<input, value, stack, visitor, first>>

\* Builder::init, up to the compare_and_swap: self.build() and
\* logger.filter(), then log::set_logger(logger, filter), which panics when
\* a logger was set before and drops the Logger this call built; the one
\* an earlier call installed stays
Builder_init ==
    /\ thread[1].pc = "idle"
    /\ nops < MaxBuilderCalls
    /\ nops' = nops + 1
    /\ input' = <<>>
    /\ stack' = None
    /\ IF set_logger_raw_claimed(State) THEN
           /\ State' = INITIALIZING
           /\ visitor' = Some(built(input))
           /\ thread' = [thread EXCEPT ![1] = Thread("make_logger", "init", FALSE)]
           /\ op' = Op("init", "-", "running", FALSE)
           /\ result' = Result("-", FALSE, None)
       ELSE
           /\ State' = State
           /\ visitor' = visitor
           /\ thread' = [thread EXCEPT ![1] = [Thread("panicked", "init", FALSE) EXCEPT !.ret = "panic"]]
           /\ op' = Op("init", "-", "panicked", FALSE)
           /\ result' = Result("Panic", TRUE, None)
    /\ hist' = [hist EXCEPT !.started = hist.started + 1]
    /\ calls' = <<>>
    /\ UNCHANGED <<LOGGER, REFCOUNT, MAX_LOG_LEVEL_FILTER>>
    /\ UNCHANGED <<value, first>>

\* make_logger(MaxLevelFilter(())) for the two closures.  That of try_init
\* is `let logger = self.build(); max_level.set(logger.filter());
\* Box::new(logger)`; that of set_logger, under init, is `max.set(filter);
\* logger` with the Logger and the filter init has made
Builder_make_logger ==
    /\ thread[1].pc = "make_logger"
    /\ IF thread[1].call = "try_init" THEN
           /\ visitor' = Some(built(input))
           /\ input' = <<>>
           /\ stack' = None
           /\ MAX_LOG_LEVEL_FILTER' = Logger_filter(built(input))
       ELSE
           /\ MAX_LOG_LEVEL_FILTER' = Logger_filter(visitor[1])
           /\ UNCHANGED <<input, stack, visitor>>
    /\ thread' = [thread EXCEPT ![1].pc = "assign", ![1].made = TRUE]
    /\ hist' = [hist EXCEPT !.made = hist.made + 1]
    /\ op' = Op(thread[1].call, "-", "running", FALSE)
    /\ result' = Result("-", FALSE, None)
    /\ calls' = <<>>
    /\ UNCHANGED <<LOGGER, State, REFCOUNT>>
    /\ UNCHANGED <<value, first, nops>>

\* Logger::enabled(level, target) on the Logger built
enabled(level, target) ==
    /\ thread[1].pc = "idle"
    /\ Len(value) = 1
    /\ op' = Op("enabled", [level |-> level, target |-> target], "done", FALSE)
    /\ result' = Result("-", FALSE, Logger_enabled(value[1], level, target))
    /\ calls' = <<>>
    /\ UNCHANGED lvars
    /\ UNCHANGED <<input, value, stack, visitor, first, nops>>

FilterNext ==
    \/ \E level \in Filters : MaxLevelFilter_set(level)
    \/ \E d \in Directives : Builder_filter(d.name, d.level)
    \/ \E filters \in Specs : Builder_parse(filters)
    \/ Builder_build
    \/ Builder_try_init
    \/ Builder_init
    \/ Builder_make_logger
    \/ set_logger_assign(1)
    \/ set_logger_store(1)
    \/ \E level \in {1, 3, 5}, target \in Targets : enabled(level, target)
    \/ \E t \in Threads \ {1} :
        \/ \E lvl \in {1, 3, 5} : log(t, lvl)
        \/ log_logger(t)
        \/ logger_load(t)
        \/ logger_none(t)
        \/ logger_some(t)
        \/ Log_method(t)
        \/ LoggerGuard_drop(t)

FilterSpec == FilterInit /\ [][FilterNext]_vars

(***************************************************************************)
(* Properties                                                              *)
(***************************************************************************)

\* the activation of Fill::fill that is running
Top == stack[Len(stack)]

\* the running Fill body is about to make a fill_* call on its slot
AtFillCall ==
    /\ op.phase = "running"
    /\ Len(stack) > 0
    /\ Top.early = "-"
    /\ Top.pos <= Len(Top.fill.steps)

\* the operation has ended, by returning or by a panic, and it visited the value
Visited == op.visited /\ op.phase \in {"done", "panicked"}

\* the two logs hold the same calls in the same order
SameCalls(a, b) ==
    /\ Len(a) = Len(b)
    /\ \A i \in 1..Len(a) : a[i].method = b[i].method /\ a[i].arg = b[i].arg

\* C1: once a fill_* call has been made on a Slot, a further fill_* call on
\* that Slot panics, and the visitor receives no call from it (its log and
\* its state are left as they were).
C1_SecondFillPanics ==
    [][(AtFillCall /\ Top.slot.filled)
        => (op'.phase = "panicked" /\ result'.visit = "Panic" /\ SameCalls(calls', calls) /\ visitor' = visitor)]_vars

\* a second fill_* call on a slot has panicked after the first delivered its call
C1_Witness ==
    /\ op.phase = "panicked"
    /\ result.visit = "Panic"
    /\ Len(stack) = 1
    /\ Top.pos = 2
    /\ Len(calls) = 1

\* the Fill body makes a fill_* call, and the value its first one is given
\* is no Fill capture, or is a Fill capture of which the same holds in turn
RECURSIVE Fills(_)
Fills(f) ==
    /\ Len(f.steps) > 0
    /\ (f.steps[1].value.tag = "Fill" => Fills(f.steps[1].value.value))

\* C2 (amended): one visit invokes at most one Visitor method, at most once.
\* A visit that has ended, by returning or by a panic, has invoked exactly
\* one for a Primitive, Debug, Display, Error or Sval value.  For a Fill
\* value it has invoked exactly one when the first fill_* call of Fill::fill
\* is given a value that is no Fill capture, or a Fill capture of which the
\* same holds in turn; it has invoked none when Fill::fill makes no fill_*
\* call, or gives its first one a Fill capture whose visit invokes none.
C2_AtMostOneCall ==
    /\ Len(calls) <= 1
    /\ Visited => IF value.tag = "Fill" THEN (Len(calls) = 1) <=> Fills(value.value) ELSE Len(calls) = 1

\* a visit of a Fill value has returned after exactly one visitor call
C2_Witness ==
    /\ op.phase = "done"
    /\ op.visited
    /\ value.tag = "Fill"
    /\ Len(value.value.steps) = 2
    /\ Len(calls) = 1

\* C2 as stated: every visit that returns has invoked exactly one Visitor
\* method, exactly once.
C2_ExactlyOneCall == (op.phase = "done" /\ op.visited) => Len(calls) = 1

\* the Fill body makes exactly one fill_* call, with a value that is no Fill
FillsOnceWith(f) == Len(f.steps) = 1 /\ f.steps[1].value.tag # "Fill"

\* what the operation gives on x itself, x no Fill
Direct(kind, target, x) ==
    IF kind = "to" /\ x.tag = "Primitive" THEN Result("-", FALSE, to_(target, Cast("Primitive", x.value)))
    ELSE IF kind = "downcast_ref" THEN Result("-", FALSE, downcast_ref(x, target))
    ELSE IF kind = "is" THEN Result("-", FALSE, is(x, target))
    ELSE Outcome(kind, target,
                 Visitor_call(NewVisitor(VisitorOf(kind, target)), Inner_visit(x)).vis,
                 Visitor_call(NewVisitor(VisitorOf(kind, target)), Inner_visit(x)).res)

\* the Fill body returns what its one fill_* call returned
HandsOn(f) == f.steps[1].try /\ f.ret = "Ok"

C4_ValueImmutable ==
    /\ [][value' = value]_vars
    /\ []((Visited /\ Len(first) > 0) => SameCalls(calls, first[1]))
    /\ []((result.visit = "Panic") => (Len(stack) > 0 /\ Top.pos > 1))

\* a third operation on a Fill value, a visit, has returned with one call
\* delivered
C4_Witness ==
    /\ nops = 3
    /\ op.phase = "done"
    /\ op.visited
    /\ value.tag = "Fill"
    /\ Len(first) > 0
    /\ Len(calls) = 1
\* the integer types
IntTypes == UnsignedTypes \cup SignedTypes

\* the to_* and get_* methods that give back a T
Matching(ty) == IF ty = "str" THEN {"borrowed_str", "str"} ELSE {ty}

\* C5 as stated: for a native scalar x of any supported type T,
\* Value::from(x) coerced back with the matching to_T (or get_T) is Some(x),
\* bit for bit, and the coercion makes no debug or display call on a visitor.
C5_RoundTrip ==
    (op.phase = "done" /\ op.kind \in {"to", "get"} /\ input.ctor = "from" /\ op.target \in Matching(input.x.ty)) =>
        /\ result.ret = Some(input.x.v)
        /\ \A i \in 1..Len(calls) : calls[i].method \notin {"debug", "display"}

\* an f32 NaN whose quiet bit is clear
SignallingF32(x) == x.ty = "f32" /\ x.v.exp = 255 /\ ~IsZero(x.v.man) /\ x.v.man[1] = 0

\* C5 (amended): for a native scalar x of any supported type T,
\* Value::from(x) coerced back with the matching to_T (or get_T) is Some(x),
\* except that a signalling f32 NaN comes back as the quiet NaN of the same
\* sign and payload; the coercion makes no debug or display call on a
\* visitor.
C5_RoundTripQuietNaN ==
    (op.phase = "done" /\ op.kind \in {"to", "get"} /\ input.ctor = "from" /\ op.target \in Matching(input.x.ty)) =>
        /\ result.ret = Some(IF SignallingF32(input.x) THEN [input.x.v EXCEPT !.man = <<1>> \o Tail(input.x.v.man)]
                              ELSE input.x.v)
        /\ \A i \in 1..Len(calls) : calls[i].method \notin {"debug", "display"}

\* to_f32 on Value::from of a signalling f32 NaN has returned a quiet NaN
C5_QuietWitness ==
    /\ op.phase = "done"
    /\ op.kind = "to"
    /\ op.target = "f32"
    /\ input.ctor = "from"
    /\ SignallingF32(input.x)
    /\ Len(result.ret) = 1
    /\ result.ret[1].exp = 255
    /\ result.ret[1].man[1] = 1

\* Rust's `as` from one integer type to another: the source sign- or
\* zero-extended by its own type, then the low bits of the target's width
int_as(x, target) ==
    IF Len(x.v) >= BitsOfType(target) THEN Truncate(x.v, BitsOfType(target))
    ELSE IF x.ty \in SignedTypes THEN SignExtend(x.v, BitsOfType(target))
    ELSE ZeroExtend(x.v, BitsOfType(target))

\* C6: to_uN / to_iN on a value made from an integer always returns Some of
\* Rust's `as` cast of that integer to the target type, whatever its sign
\* or size.
C6_IntegerCastWraps ==
    (op.phase = "done" /\ op.kind = "to" /\ input.ctor = "from" /\ input.x.ty \in IntTypes /\ op.target \in IntTypes) =>
        result.ret = Some(int_as(input.x, op.target))

\* Value::from(-1i64).to_u32() has returned Some(4294967295)
C6_Witness ==
    /\ op.phase = "done"
    /\ op.kind = "to"
    /\ op.target = "u32"
    /\ input.ctor = "from"
    /\ input.x.ty = "i64"
    /\ input.x.v = Ones(64)
    /\ result.ret = Some(Ones(32))

\* Rust's `as` from f64 to an integer type: toward zero, saturating at the
\* target's bounds, NaN to 0
f64_as(x, ty) ==
    LET w == BitsOfType(ty)
        E == x.exp - 1023
    IN  IF F64IsNaN(x) \/ x.exp < 1023 THEN Zeros(w)
        ELSE IF ty \in UnsignedTypes THEN
            (IF x.sign = 1 THEN Zeros(w)
             ELSE IF E >= w THEN Ones(w)
             ELSE ZeroExtend(F64IntegerPart(x), w))
        ELSE IF E >= w - 1 THEN (IF x.sign = 1 THEN <<1>> \o Zeros(w - 1) ELSE <<0>> \o Ones(w - 1))
        ELSE IF x.sign = 1 THEN WrappingNeg(ZeroExtend(F64IntegerPart(x), w))
        ELSE ZeroExtend(F64IntegerPart(x), w)

\* C7 as stated: for every f64 f and every integer target, to_iN / to_uN on
\* Value::from(f) returns Some of Rust's `as` cast of f to that target.
C7_FloatCastIsNative ==
    (op.phase = "done" /\ op.kind = "to" /\ input.ctor = "from" /\ input.x.ty = "f64" /\ op.target \in IntTypes) =>
        result.ret = Some(f64_as(input.x.v, op.target))

\* the numeric targets
NumericTargets == IntTypes \cup {"f32", "f64"}

\* C8: a numeric to_* on a string, bool, char or none value, and to_bool,
\* to_char or to_borrowed_str on a number, returns None, without a panic and
\* without an error.
C8_MismatchIsNone ==
    (op.kind = "to" /\ op.phase # "running" /\ value.tag = "Primitive") =>
        ((\/ value.value.kind \in {"Str", "Bool", "Char", "None"} /\ op.target \in NumericTargets
          \/ value.value.kind \in {"Signed", "Unsigned", "Float"} /\ op.target \in {"bool", "char", "borrowed_str"})
         => (op.phase = "done" /\ ~result.panicked /\ result.visit # "Err" /\ Len(result.ret) = 0))

\* to_u32 on Value::from("a string") has returned None
C8_Witness ==
    /\ op.phase = "done"
    /\ op.kind = "to"
    /\ op.target = "u32"
    /\ input.ctor = "from"
    /\ input.x.ty = "str"
    /\ Len(result.ret) = 0

\* C9 as stated: when the visit a to_* or get_* makes returns an error, the
\* coercion returns None.
C9_ErrorIsNone ==
    (op.phase = "done" /\ op.kind \in {"to", "get"} /\ result.visit = "Err") => Len(result.ret) = 0

\* C10: Value::from(None) is the none primitive, a visit of it calls none,
\* and every to_* on it returns None; Value::from(Some(x)) is Value::from(x)
\* and every operation on it gives what it gives on Value::from(x).
C10_OptionDelegates ==
    input.ctor = "from_option" =>
        IF Len(input.x.v) = 0 THEN
            /\ value.tag = "Primitive"
            /\ value.value.kind = "None"
            /\ Visited => SameCalls(calls, <<Call("none", <<>>)>>)
            /\ (op.kind = "to" /\ op.phase # "idle") => (op.phase = "done" /\ Len(result.ret) = 0)
        ELSE
            /\ value.tag = "Primitive"
            /\ value.value.kind = to_value(Native(input.x.of, input.x.v[1])).value.kind
            /\ value.value.v = to_value(Native(input.x.of, input.x.v[1])).value.v
            /\ Visited => SameCalls(calls, <<Inner_visit(to_value(Native(input.x.of, input.x.v[1])))>>)
            /\ op.phase \in {"done", "panicked"} =>
                   result = Direct(op.kind, op.target, to_value(Native(input.x.of, input.x.v[1])))

\* Value::from(Some(5i32)).to_i32() has returned Some(5)
C10_Witness ==
    /\ op.phase = "done"
    /\ op.kind = "to"
    /\ op.target = "i32"
    /\ input.ctor = "from_option"
    /\ input.x.of = "i32"
    /\ result.ret = Some(BitsOf(5, 32))

\* the Visitor method that announces a scalar of the given native type
ScalarMethod(ty) ==
    CASE ty \in UnsignedTypes -> "u64"
      [] ty \in SignedTypes -> "i64"
      [] ty \in {"f32", "f64"} -> "f64"
      [] ty = "bool" -> "bool"
      [] ty = "char" -> "char"
      [] ty = "str" -> "borrowed_str"

\* the input is a capture_debug, capture_display or capture_sval of a native
\* scalar or an Option of one
CapturesPrimitive ==
    /\ input.ctor \in {"capture_debug", "capture_display", "capture_sval"}
    /\ "name" \notin DOMAIN input.x

\* C11: capture_debug, capture_display and capture_sval of a native integer,
\* float, bool, char or string slice, or of an Option of one, give the
\* Primitive that Value::from gives; a visit of the result makes the one
\* scalar call matching the type (none for Option::None) and no debug,
\* display or sval call.
C11_CapturePrimitive ==
    CapturesPrimitive =>
        /\ value.tag = "Primitive"
        /\ IF "of" \in DOMAIN input.x
           THEN value.value.kind = to_value_option(input.x).value.kind /\ value.value.v = to_value_option(input.x).value.v
           ELSE value.value.kind = to_value(input.x).value.kind /\ value.value.v = to_value(input.x).value.v
        /\ Visited =>
               /\ Len(calls) = 1
               /\ calls[1].method \notin {"debug", "display", "sval"}
               /\ calls[1].method = (IF "of" \in DOMAIN input.x
                                     THEN (IF Len(input.x.v) = 0 THEN "none" ELSE ScalarMethod(input.x.of))
                                     ELSE ScalarMethod(input.x.ty))

\* a visit of Value::capture_debug(&Some(5i32)) has called i64
C11_Witness ==
    /\ op.phase = "done"
    /\ op.kind = "to_token"
    /\ input.ctor = "capture_debug"
    /\ "of" \in DOMAIN input.x
    /\ Len(input.x.v) = 1
    /\ input.x.of = "i32"
    /\ Len(calls) = 1
    /\ calls[1].method = "i64"

\* a downcast has returned
Downcasted == op.phase = "done" /\ op.kind \in {"downcast_ref", "is"}

\* the downcast found nothing
DowncastNone == IF op.kind = "is" THEN result.ret = FALSE ELSE Len(result.ret) = 0

\* C12 as stated: for w of type T captured with capture_debug,
\* capture_display, capture_error or capture_sval, downcast_ref::<T>() is
\* Some(&w) and is::<T>() is true, and for every other type U they are None
\* and false.
C12_DowncastRecovers ==
    (Downcasted /\ input.ctor \in {"capture_debug", "capture_display", "capture_error", "capture_sval"}) =>
        IF op.target = type_id(input.x)
        THEN (IF op.kind = "is" THEN result.ret = TRUE ELSE Len(result.ret) = 1 /\ result.ret[1] = input.x)
        ELSE DowncastNone

\* C13: downcast_ref::<T>() and is::<T>() on a value made with from_debug,
\* from_display, From<&dyn Error>, From<&dyn sval::Value>, from a primitive
\* or from a Fill return None and false for every T, without a visit, a
\* panic or an error.
C13_NoTokenNoDowncast ==
    (op.kind \in {"downcast_ref", "is"} /\ op.phase # "idle"
        /\ input.ctor \in {"from", "from_option", "from_arguments", "from_debug", "from_display", "from_dyn_error", "from_dyn_sval", "from_fill"}) =>
        /\ value.type_id = NoTypeId
        /\ op.phase = "done"
        /\ ~op.visited
        /\ ~result.panicked
        /\ result.visit = "-"
        /\ Len(calls) = 0
        /\ DowncastNone

\* Value::from_debug(&point).downcast_ref::<Point>() has returned None
C13_Witness ==
    /\ op.phase = "done"
    /\ op.kind = "downcast_ref"
    /\ op.target = "Point"
    /\ input.ctor = "from_debug"
    /\ input.x.ty = "Point"
    /\ Len(result.ret) = 0

\* the input is a string slice, given to Value::from or to a capture_*
FromStr ==
    /\ input.ctor \in {"from", "capture_debug", "capture_display", "capture_sval"}
    /\ "ty" \in DOMAIN input.x
    /\ input.x.ty = "str"

\* the slice is the one the Value was made from: same place, same text
SameSlice(s) == s.ptr = input.x.v.ptr /\ s.text = input.x.v.text

\* C14: a value captured from a string slice is announced through
\* borrowed_str with that very slice, never through str; to_borrowed_str,
\* to_str, get_str and get_string return Some of the same slice, not of a
\* copy.
C14_StrIsBorrowed ==
    FromStr =>
        /\ Visited => (Len(calls) = 1 /\ calls[1].method = "borrowed_str" /\ SameSlice(calls[1].arg))
        /\ (op.phase = "done" /\ op.kind \in {"to", "get"} /\ op.target \in {"borrowed_str", "str", "string"}) =>
               (Len(result.ret) = 1 /\ SameSlice(result.ret[1]))

\* Value::from("a string").to_borrowed_str() has returned the slice
C14_Witness ==
    /\ FromStr
    /\ input.ctor = "from"
    /\ input.x.v.text = utf("a string")
    /\ op.phase = "done"
    /\ op.kind = "to"
    /\ op.target = "borrowed_str"
    /\ Len(result.ret) = 1
    /\ result.ret[1].ptr = 1

\* to_str or get_string has returned
StringAsked ==
    /\ op.phase = "done"
    /\ \/ op.kind = "to" /\ op.target = "str"
       \/ op.kind = "get" /\ op.target = "string"

\* C15 (amended): to_str and get_string on a Debug or Display capture return
\* None, the cast and coerce visitors keeping nothing of a debug or display
\* call; the owned string is what to_str returns when the visit delivers a
\* short-lived string through the visitor's str method, as an sval value
\* that streams a string does: Some owned string holding that text.
C15_OwnedStringFromStr ==
    StringAsked =>
        /\ value.tag \in {"Debug", "Display"} => (result.visit = "Ok" /\ Len(result.ret) = 0)
        /\ (op.kind = "to" /\ value.tag = "Sval" /\ value.value.emits.kind = "Str") =>
               /\ Len(result.ret) = 1
               /\ result.ret[1].text = value.value.emits.v.text
               /\ result.ret[1].ptr = to_owned(value.value.emits.v).ptr
               /\ result.ret[1].ptr # value.value.emits.v.ptr

\* to_str on a value from an sval::Value that streams a string has returned
\* an owned string with its text
C15_Witness ==
    /\ op.phase = "done"
    /\ op.kind = "to"
    /\ op.target = "str"
    /\ value.tag = "Sval"
    /\ value.value.ty = "SvalText"
    /\ Len(result.ret) = 1
    /\ result.ret[1].text = utf("short lived")

\* C15 as stated: to_str / get_string on a Debug or Display capture returns
\* Some owned string.
C15_FormattedIsOwned ==
    (StringAsked /\ value.tag \in {"Debug", "Display"} /\ value.value.fmt_ok) =>
        (Len(result.ret) = 1 /\ result.ret[1].ptr = 0)

\* the Visitor method of each Primitive variant that holds a scalar
MethodOfKind(kind) ==
    CASE kind = "Signed" -> "i64"
      [] kind = "Unsigned" -> "u64"
      [] kind = "Float" -> "f64"
      [] kind = "Bool" -> "bool"
      [] kind = "Char" -> "char"
      [] kind = "Str" -> "borrowed_str"
      [] kind = "None" -> "none"

\* C16 (amended): a visit of a Primitive value makes exactly one call, the
\* scalar method of its variant (i64, u64, f64, bool, char, borrowed_str or
\* none) and neither debug nor display, for every variant but Fmt, a
\* captured format_args!, which is announced through debug; and the only
\* scalar method that goes on to the visitor's own debug is none of the two
\* formatting visitors.
C16_PrimitiveDispatch ==
    (Visited /\ value.tag = "Primitive") =>
        /\ Len(calls) = 1
        /\ IF value.value.kind = "Fmt" THEN calls[1].method = "debug"
           ELSE /\ calls[1].method = MethodOfKind(value.value.kind)
                /\ calls[1].method \notin {"debug", "display"}
                /\ Visitor_call(NewVisitor(VisitorOf(op.kind, op.target)), calls[1]).via \in {"debug", "display"}
                       => (value.value.kind = "None" /\ op.kind = "fmt")

\* a visit of Value::from(true) has called bool
C16_Witness ==
    /\ Visited
    /\ op.kind = "fmt"
    /\ value.tag = "Primitive"
    /\ value.value.kind = "Bool"
    /\ Len(calls) = 1
    /\ calls[1].method = "bool"

\* C16 as stated: a visit of a Primitive value never calls the visitor's
\* debug or display, whichever variant it holds.
C16_NeverFormats ==
    (Visited /\ value.tag = "Primitive") => \A i \in 1..Len(calls) : calls[i].method \notin {"debug", "display"}

\* C17: for Value::from_debug(&x), formatting the Value with Display or
\* with Debug writes exactly what x's Debug implementation writes, and fails
\* exactly when it fails.
C17_DebugOnlyFormatsAsDebug ==
    (op.phase = "done" /\ op.kind = "fmt" /\ input.ctor = "from_debug") =>
        IF input.x.fmt_ok
        THEN result.ret.res = "Ok" /\ result.ret.out = <<Written("Debug", input.x)>>
        ELSE result.ret.res = "Err" /\ Len(result.ret.out) = 0

\* Display formatting of Value::from_debug(&point) has written point's Debug
\* text
C17_Witness ==
    /\ op.phase = "done"
    /\ op.kind = "fmt"
    /\ op.target = "Display"
    /\ input.ctor = "from_debug"
    /\ input.x.ty = "Point"
    /\ result.ret.res = "Ok"
    /\ Len(result.ret.out) = 1
    /\ result.ret.out[1].style = "Debug"

\* the functions that set the global logger
SetCalls == {"set_logger_raw", "try_set_logger", "set_logger"}

\* shutdown_logger_raw has returned Ok(logger)
ShutDown == Len(hist.returned) > 0

\* C18: whatever the interleaving of set_logger_raw, try_set_logger and
\* set_logger calls, at most one of them ever returns Ok and make_logger
\* runs at most once; every other call, any made after the logger was shut
\* down included, fails with SetLoggerError (set_logger panics) and neither
\* runs make_logger nor writes LOGGER.
C18_SetAtMostOnce ==
    /\ [](hist.set_ok <= 1 /\ hist.made <= 1)
    /\ [](\A t \in Threads :
            (thread[t].call \in SetCalls /\ thread[t].pc \in {"idle", "panicked"}) =>
                /\ thread[t].ret \in {"Ok", "Err", "panic"}
                /\ thread[t].ret = "Ok" => (thread[t].made /\ hist.set_ok = 1 /\ ~thread[t].late)
                /\ thread[t].ret # "Ok" =>
                       /\ ~thread[t].made
                       /\ (thread[t].call = "set_logger") <=> (thread[t].ret = "panic" /\ thread[t].pc = "panicked"))
    /\ [][LOGGER' # LOGGER =>
            \/ \E t \in Threads : thread[t].pc = "assign" /\ thread[t].made /\ hist.made = 1 /\ hist.set_ok = 0
            \/ \E t \in Threads : thread[t].pc = "shutdown_take"]_vars

\* a set call made after the logger has been set and shut down has failed
C18_Witness ==
    /\ hist.set_ok = 1
    /\ ShutDown
    /\ \E t \in Threads :
           /\ thread[t].call \in SetCalls
           /\ thread[t].late
           /\ thread[t].ret \in {"Err", "panic"}

\* C19: once shutdown_logger_raw has returned Ok(logger), the logger it
\* returned is the one that was installed, no thread holds a LoggerGuard or
\* is in a method of a logger or about to take LOGGER, LOGGER is back to
\* &NopLogger, and this stays so: no thread obtains a reference afterwards.
C19_ShutdownExclusive ==
    ShutDown =>
        /\ hist.returned[1] # NopLogger
        /\ LOGGER = NopLogger
        /\ REFCOUNT >= 0
        /\ \A t \in Threads :
               /\ Len(thread[t].guard) = 0
               /\ thread[t].pc \notin {"logger_some", "method", "drop"}
               /\ thread[t].late => ~thread[t].called

\* shutdown_logger_raw has returned Ok while a log call that began before
\* is still in logger(), being turned away
C19_Witness ==
    /\ ShutDown
    /\ \E t \in Threads :
           /\ thread[t].call = "__log"
           /\ ~thread[t].late
           /\ thread[t].pc = "logger_none"

\* C20: a log event reaches a logger only on a load of STATE that found it
\* INITIALIZED: a thread is in a method of a logger, or has been in its
\* call, only after a set call has stored INITIALIZED and only in a call
\* that began before shutdown_logger_raw returned, and the method is the
\* installed logger's; an __enabled call that ends before the logger is set
\* or begins after it was shut down returns false.
C20_LogOnlyWhileInitialized ==
    /\ [](\A t \in Threads :
            /\ (thread[t].pc \in {"method", "drop"} \/ thread[t].called) =>
                   /\ hist.set_ok = 1
                   /\ ~thread[t].late
                   /\ thread[t].call \in {"__log", "__enabled"}
            /\ thread[t].pc \in {"method", "drop"} => (Len(thread[t].guard) = 1 /\ thread[t].guard[1] # NopLogger)
            /\ (thread[t].call = "__enabled" /\ thread[t].pc = "idle" /\ (thread[t].late \/ hist.set_ok = 0)) =>
                   (thread[t].ret = "false" /\ ~thread[t].called))
    /\ [][\A t \in Threads :
            (thread[t].pc = "logger_load" /\ thread'[t].pc = "logger_some") => State = INITIALIZED]_vars

\* an __enabled call begun after the logger was set and shut down has
\* returned false
C20_Witness ==
    /\ hist.set_ok = 1
    /\ ShutDown
    /\ \E t \in Threads :
           /\ thread[t].call = "__enabled"
           /\ thread[t].late
           /\ thread[t].pc = "idle"
           /\ thread[t].ret = "false"

\* what the running fill_* call's visit returns: the visitor's result for the
\* one call Inner::visit makes with the statement's value
FillResult == Visitor_call(visitor, Inner_visit(Top.fill.steps[Top.pos].value)).res

\* C26: Slot::fill sets `filled` before it runs the closure that invokes the
\* visitor: a fill_* call marks the slot filled whatever the call returns,
\* an error included, and every later fill_* call on that slot panics
\* without a visitor call, so the fill is never retried.
C26_FilledBeforeVisit ==
    /\ [][(AtFillCall /\ ~Top.slot.filled /\ Top.fill.steps[Top.pos].value.tag # "Fill")
            => (/\ stack'[Len(stack)].slot.filled
                /\ FillResult = "Err" =>
                       (stack'[Len(stack)].early = (IF Top.fill.steps[Top.pos].try THEN "Err" ELSE "-")))]_vars
    /\ [][(AtFillCall /\ ~Top.slot.filled /\ Top.fill.steps[Top.pos].value.tag = "Fill")
            => stack'[Len(stack)].slot.filled]_vars
    /\ [](AtFillCall /\ Top.pos > 1 => Top.slot.filled)
    /\ [][(AtFillCall /\ Top.pos > 1)
            => (op'.phase = "panicked" /\ SameCalls(calls', calls) /\ visitor' = visitor)]_vars

\* a fill_* call returned an error that the Fill body dropped, and the next
\* fill_* call on the slot has panicked
C26_Witness ==
    /\ op.phase = "panicked"
    /\ Len(stack) = 1
    /\ Top.pos = 2
    /\ Top.slot.filled
    /\ ~Top.fill.steps[1].try
    /\ Len(calls) = 1
    /\ Visitor_call(NewVisitor(VisitorOf(op.kind, op.target)), calls[1]).res = "Err"

\* the to_* method that answers for a get_* method: get_str is
\* to_borrowed_str, get_string is to_str, the others keep their target
Permissive(target) ==
    CASE target = "str" -> "borrowed_str"
      [] target = "string" -> "str"
      [] OTHER -> target

\* what the permissive to_* gives on the value whose strict visit made the
\* calls logged: Inner::cast answers a Primitive at once and otherwise reads
\* the CastVisitor after the same calls
CastOfVisited(target) ==
    IF value.tag = "Primitive" THEN to_(target, Cast("Primitive", value.value))
    ELSE IF Len(calls) = 0 THEN to_(target, NewVisitor("Cast").cast)
    ELSE to_(target, Visitor_call(NewVisitor("Cast"), calls[1]).vis.cast)

\* a get_* call has returned Some(v)
StrictAnswered == op.kind = "get" /\ op.phase = "done" /\ Len(result.ret) = 1

\* C28: the permissive cast refines the strict coerce: when a get_* call
\* returns Some(v), the corresponding to_* call on the same value returns
\* Some(v) too, whether it is made next on the value or computed from the
\* calls the value's visit makes.
C28_CastRefinesCoerce ==
    /\ [](StrictAnswered =>
            /\ Len(CastOfVisited(Permissive(op.target))) = 1
            /\ CastOfVisited(Permissive(op.target))[1] = result.ret[1])
    /\ [][(StrictAnswered /\ op'.kind = "to" /\ op'.target = Permissive(op.target) /\ op'.phase = "done")
            => (Len(result'.ret) = 1 /\ result'.ret[1] = result.ret[1])]_vars

\* get_u8 has returned Some for a Fill value whose body filled its slot
\* with an unsigned integer
C28_Witness ==
    /\ StrictAnswered
    /\ op.target = "u8"
    /\ value.tag = "Fill"
    /\ Len(calls) = 1
    /\ calls[1].method = "u64"

\* a failed shutdown_logger_raw call has returned
ShutdownFailed(t) ==
    /\ thread[t].call = "shutdown_logger_raw"
    /\ thread[t].pc = "idle"
    /\ thread[t].ret = "Err"

\* C27: shutdown_logger_raw stores Off in the global maximum level before it
\* looks at STATE, so a call that fails (no logger set, a set or a shutdown
\* in progress, already shut down) has reset the level all the same: the
\* store happens whatever STATE is, and the failing return restores nothing.
C27_FailedShutdownResetsLevel ==
    /\ [][\A t \in Threads :
            (thread[t].pc = "idle" /\ thread'[t].pc = "shutdown_cas") => MAX_LOG_LEVEL_FILTER' = 0]_vars
    /\ [][\A t \in Threads :
            (thread[t].pc = "shutdown_cas" /\ thread'[t].pc = "idle") =>
                /\ State # INITIALIZED
                /\ thread'[t].ret = "Err"
                /\ MAX_LOG_LEVEL_FILTER' = MAX_LOG_LEVEL_FILTER]_vars

\* a shutdown_logger_raw call made while set_logger was between its
\* make_logger, which had set the level, and its store of INITIALIZED has
\* failed, and the level is Off
C27_Witness ==
    \E t, u \in Threads :
        /\ ShutdownFailed(t)
        /\ thread[u].call = "set_logger"
        /\ thread[u].pc = "store"
        /\ State = INITIALIZING
        /\ MAX_LOG_LEVEL_FILTER = 0

\* C25: a shutdown_logger_raw call that has moved STATE from INITIALIZED to
\* INITIALIZING eventually returns, when every thread in a call runs on and
\* every LoggerGuard is eventually dropped, other threads making new log
\* calls all the while.
C25_ShutdownReturns == (\E t \in Threads : thread[t].pc = "shutdown_wait") ~> ShutDown

\* the pairs a visit of the source delivers to a visitor that never fails
Delivered == Source_visit(input, PairVisitor("Collect", "-", 0)).vis.seen

\* a visit with a visitor that never fails has returned
VisitedAll == op.kind = "visit" /\ op.phase = "done" /\ op.target = 0

\* C22: count() is the number of pairs a subsequent visit delivers to a
\* visitor that never fails: 1 for a pair, 0 for None, for a slice the sum
\* over its elements, for a source that takes the default the pairs its
\* visit walks.
C22_CountIsVisited ==
    /\ [](VisitedAll => (result.visit = "Ok" /\ Len(calls) = Source_count(input)))
    /\ [](op.kind = "count" =>
            /\ result.ret = Len(Delivered)
            /\ input.src = "Pair" => result.ret = 1
            /\ (input.src = "Option" /\ Len(input.elems) = 0) => result.ret = 0)
    /\ [][(op.kind = "count" /\ op'.kind = "visit" /\ op'.target = 0) => Len(calls') = result.ret]_vars

\* a visit of a two-element slice holding a None has delivered one pair
C22_Witness ==
    /\ VisitedAll
    /\ input.src = "Slice"
    /\ Len(input.elems) = 2
    /\ Len(calls) = 1

\* where the key occurs among the pairs delivered
Occurrences(key) == {i \in 1..Len(Delivered) : Delivered[i][1] = key}

\* C23: get(key) returns the value of the last occurrence of the key in
\* visit order, and None when the key does not occur.
C23_GetReturnsLast ==
    (op.kind = "get" /\ op.phase = "done") =>
        IF Occurrences(op.target) = {} THEN Len(result.ret) = 0
        ELSE /\ Len(result.ret) = 1
             /\ \E i \in Occurrences(op.target) :
                    /\ \A j \in Occurrences(op.target) : j <= i
                    /\ result.ret[1] = Delivered[i][2]

\* C21: with a logger installed and no static maximum level, a logging
\* macro invoked at level l while the maximum level is f delivers its record
\* to the logger if and only if l <= f: the macro goes on to __log exactly
\* when l <= f for the f it loads (never when f is Off, always when f is
\* Trace), and __log hands the record to the logger exactly when logger()
\* finds one installed.
C21_DeliveredIffWithinMax ==
    /\ [][\A t \in Threads : (thread[t].pc = "idle" /\ thread'[t].pc = "__log") =>
            (op'.kind = "log" /\ op'.target <= MAX_LOG_LEVEL_FILTER /\ MAX_LOG_LEVEL_FILTER # 0)]_vars
    /\ [][(op'.kind = "log" /\ op'.phase = "done" /\ op' # op) =>
            (thread' = thread /\ ~(op'.target <= MAX_LOG_LEVEL_FILTER) /\ MAX_LOG_LEVEL_FILTER # 5)]_vars
    /\ [][\A t \in Threads : (thread[t].call = "__log" /\ thread[t].pc = "logger_load" /\ thread'[t].pc # "logger_load") =>
            ((thread'[t].pc = "logger_some") <=> (State = INITIALIZED))]_vars
    /\ [][\A t \in Threads : (thread[t].call = "__log" /\ ~thread[t].called /\ thread'[t].called) =>
            (thread[t].pc = "method" /\ Len(thread[t].guard) = 1 /\ thread'[t].call = "__log")]_vars

\* a macro call at Info, made with the maximum level at Info, has been
\* delivered to the logger
C21_Witness ==
    /\ op.kind = "log"
    /\ op.target = 3
    /\ MAX_LOG_LEVEL_FILTER = 3
    /\ \E t \in Threads : thread[t].call = "__log" /\ thread[t].called /\ thread[t].pc = "drop"

\* the directives of the Logger: those given to the Builder, in the order
\* given, or the default one
Given == IF Len(first[1]) = 0 THEN <<Directive(None, 1)>> ELSE first[1]

\* the directives given that match the target
MatchingDirectives(target) == {i \in 1..Len(Given) : Len(Given[i].name) = 0 \/ starts_with(target, Given[i].name[1])}

\* C24: for a Logger produced by Builder::build, enabled(level, target) is
\* decided by the directive with the longest name that is a prefix of the
\* target, a directive without a name matching every target (the last
\* given, when several have that length): the result is level <= that
\* directive's level, and false when no directive matches.
C24_LongestPrefixDecides ==
    (op.kind = "enabled" /\ op.phase = "done") =>
        IF MatchingDirectives(op.target.target) = {} THEN result.ret = FALSE
        ELSE \E i \in MatchingDirectives(op.target.target) :
                /\ \A j \in MatchingDirectives(op.target.target) :
                       name_len(Given[j]) < name_len(Given[i]) \/ (name_len(Given[j]) = name_len(Given[i]) /\ j <= i)
                /\ result.ret = (op.target.level <= Given[i].level)

\* enabled has answered by the longer of two matching directives, given
\* first, against what the shorter one, given last, would answer
C24_Witness ==
    /\ op.kind = "enabled"
    /\ op.phase = "done"
    /\ Len(Given) = 2
    /\ MatchingDirectives(op.target.target) = {1, 2}
    /\ name_len(Given[1]) > name_len(Given[2])
    /\ result.ret = (op.target.level <= Given[1].level)
    /\ result.ret # (op.target.level <= Given[2].level)
====
